---- MODULE Spec2Model ----
(***************************************************************************)
(* Employee-Planner (ProjectPilot): the analysis pipeline.                 *)
(*                                                                         *)
(* POST /analyze stores a record and queues a background task; the task    *)
(* runs the four agents (intake, technical, estimation, summary) one after *)
(* the other in the executor, matches employees to the estimated roles     *)
(* between stage 3 and stage 4, and writes the outcome to the in-memory    *)
(* analysis store.                                                         *)
(*                                                                         *)
(* Python values are modelled as follows.  A dict is a function whose      *)
(* domain is its set of keys.  A value decoded from the model's JSON is a  *)
(* tagged record [t |-> "dict" | "list" | "str" | "none", v |-> ...], so   *)
(* that the type tests and the attribute errors of the code can be told    *)
(* apart.  A response text is a sequence of tokens (strings): the code     *)
(* fence, the language tag, white space, prose, and names of JSON values.  *)
(* A confidence is an integer number of 1/3000.                            *)
(***************************************************************************)
EXTENDS Integers, Sequences, FiniteSets, TLC

\* ------------------------------------------------------------------ bounds
MaxAnalyses == 2

Ids == 1..MaxAnalyses

Stages == 1..4

\* ------------------------------------------------------- Python primitives
None == [t |-> "none"]

JDict(f) == [t |-> "dict", v |-> f]

JList(s) == [t |-> "list", v |-> s]

JStr(s) == [t |-> "str", v |-> s]

EmptyDict == [k \in {} |-> None]

\* dict.get(key, default)
Get(d, k, default) == IF k \in DOMAIN d THEN d[k] ELSE default

\* {**d, k: v} and d[k] = v
Put(d, k, val) == [x \in (DOMAIN d) \cup {k} |-> IF x = k THEN val ELSE d[x]]

\* {**d, **e}: the keys of e win
Merge(d, e) == [x \in (DOMAIN d) \cup (DOMAIN e) |-> IF x \in DOMAIN e THEN e[x] ELSE d[x]]

\* ------------------------------------------------------------- sequences
\* needle in hay (str.__contains__): needle occurs as a contiguous run
Contains(hay, needle) ==
    \E i \in 0..(Len(hay) - Len(needle)) : SubSeq(hay, i + 1, i + Len(needle)) = needle

\* ---------------------------------------------------------- response text
\* the three backquotes that open or close a code block
FENCE == "fence"

TAG == "json"

NL == "newline"

SP == "space"

IsSpace(tok) == tok \in {SP, NL}

RECURSIVE lstrip(_)
lstrip(s) == IF s # << >> /\ IsSpace(Head(s)) THEN lstrip(Tail(s)) ELSE s

RECURSIVE rstrip(_)
rstrip(s) == IF s # << >> /\ IsSpace(s[Len(s)]) THEN rstrip(SubSeq(s, 1, Len(s) - 1)) ELSE s

\* str.strip()
strip(s) == rstrip(lstrip(s))

\* the first re.sub, of the opening: the fence, the optional tag and
\* the white space up to and including the last newline of that run
sub_opening(c) ==
    IF c = << >> \/ c[1] # FENCE THEN c
    ELSE LET j == IF Len(c) >= 2 /\ c[2] = TAG THEN 3 ELSE 2
             run == {i \in j..Len(c) : \A m \in j..i : IsSpace(c[m])}
             nls == {i \in run : c[i] = NL}
         IN  IF nls = {} THEN c
             ELSE LET last == CHOOSE i \in nls : \A m \in nls : m <= i
                  IN  SubSeq(c, last + 1, Len(c))

\* the second re.sub, of the closing: a newline and a fence followed by
\* nothing but white space up to the end
sub_closing(c) ==
    LET at == {i \in 1..(Len(c) - 1) :
                  /\ c[i] = NL
                  /\ c[i + 1] = FENCE
                  /\ \A m \in (i + 2)..Len(c) : IsSpace(c[m])}
    IN  IF at = {} THEN c
        ELSE LET first == CHOOSE i \in at : \A m \in at : i <= m
             IN  SubSeq(c, 1, first - 1)

strip_markdown_wrapper(content) ==
    LET c == strip(content)
    IN  IF c # << >> /\ c[1] = FENCE
        THEN strip(sub_closing(sub_opening(c)))
        ELSE strip(c)

\* ------------------------------------------------------------------ str
\* A str whose characters matter (a title, a seniority, a skill) is the
\* sequence of its characters.
LowerOf ==
    [c \in {"A", "B", "C", "D", "E", "F", "G", "H", "I", "J", "K", "L", "M",
             "N", "O", "P", "Q", "R", "S", "T", "U", "V", "W", "X", "Y", "Z"} |->
        CASE c = "A" -> "a"
          [] c = "B" -> "b"
          [] c = "C" -> "c"
          [] c = "D" -> "d"
          [] c = "E" -> "e"
          [] c = "F" -> "f"
          [] c = "G" -> "g"
          [] c = "H" -> "h"
          [] c = "I" -> "i"
          [] c = "J" -> "j"
          [] c = "K" -> "k"
          [] c = "L" -> "l"
          [] c = "M" -> "m"
          [] c = "N" -> "n"
          [] c = "O" -> "o"
          [] c = "P" -> "p"
          [] c = "Q" -> "q"
          [] c = "R" -> "r"
          [] c = "S" -> "s"
          [] c = "T" -> "t"
          [] c = "U" -> "u"
          [] c = "V" -> "v"
          [] c = "W" -> "w"
          [] c = "X" -> "x"
          [] c = "Y" -> "y"
          [] c = "Z" -> "z"]

\* str.lower()
lower(s) == [i \in 1..Len(s) |-> IF s[i] \in DOMAIN LowerOf THEN LowerOf[s[i]] ELSE s[i]]

\* str.split(): the maximal runs of characters other than the blank
RECURSIVE split(_)
split(s) ==
    IF s = << >> THEN << >>
    ELSE IF Head(s) = " " THEN split(Tail(s))
    ELSE LET ends == {i \in 1..Len(s) : \A m \in 1..i : s[m] # " "}
             n == CHOOSE i \in ends : \A m \in ends : m <= i
         IN  <<SubSeq(s, 1, n)>> \o split(SubSeq(s, n + 1, Len(s)))

\* --------------------------------------------------------- JSON documents
\* What json.loads makes of each value token a response text may hold.
STR_web_app == <<"w", "e", "b", "_", "a", "p", "p">>

STR_FastAPI == <<"F", "a", "s", "t", "A", "P", "I">>

STR_Backend_Developer == <<"B", "a", "c", "k", "e", "n", "d", " ", "D", "e", "v", "e", "l", "o", "p", "e", "r">>

STR_QA_Engineer == <<"Q", "A", " ", "E", "n", "g", "i", "n", "e", "e", "r">>

STR_Senior == <<"S", "e", "n", "i", "o", "r">>

STR_Mid == <<"M", "i", "d">>

STR_plan == <<"p", "l", "a", "n">>

RoleBackend == JDict([role |-> JStr(STR_Backend_Developer), seniority |-> JStr(STR_Senior)])

RoleQA == JDict([role |-> JStr(STR_QA_Engineer), seniority |-> JStr(STR_Mid)])

\* a role whose seniority is null
RoleNullSeniority == JDict([role |-> JStr(STR_QA_Engineer), seniority |-> None])

JsonValue ==
    [tok \in {"intake_obj", "technical_obj", "technical_stack_list", "estimation_obj",
              "estimation_null_seniority", "estimation_no_team", "summary_obj",
              "summary_flat", "array", "null"} |->
        CASE tok = "intake_obj" ->
                JDict([project_type |-> JStr(STR_web_app)])
          [] tok = "technical_obj" ->
                JDict([recommended_tech_stack |->
                          JDict([backend |-> JDict([primary |-> JStr(STR_FastAPI)])])])
          [] tok = "technical_stack_list" ->
                JDict([recommended_tech_stack |-> JList(<<JStr(STR_FastAPI)>>)])
          [] tok = "estimation_obj" ->
                JDict([team_composition |-> JList(<<RoleBackend, RoleQA>>),
                       cost_breakdown |-> JDict([total |-> JStr(STR_plan)]),
                       timeline_breakdown |-> JDict([total |-> JStr(STR_plan)])])
          [] tok = "estimation_null_seniority" ->
                JDict([team_composition |-> JList(<<RoleBackend, RoleNullSeniority>>),
                       cost_breakdown |-> JDict([total |-> JStr(STR_plan)]),
                       timeline_breakdown |-> JDict([total |-> JStr(STR_plan)])])
          [] tok = "estimation_no_team" ->
                JDict([cost_breakdown |-> JDict([total |-> JStr(STR_plan)])])
          [] tok = "summary_obj" ->
                JDict([executive_summary |-> JDict([project_overview |-> JStr(STR_plan)]),
                       major_risks |-> JList(<< >>)])
          [] tok = "summary_flat" ->
                JDict([executive_summary |-> JStr(STR_plan)])
          [] tok = "array" -> JList(<<JStr(STR_plan)>>)
          [] tok = "null" -> None]

\* json.loads(text): white space, one JSON value, white space; anything else
\* is a JSONDecodeError
json_loads(text) ==
    LET s == strip(text)
    IN  IF Len(s) = 1 /\ s[1] \in DOMAIN JsonValue
        THEN [ok |-> TRUE, value |-> JsonValue[s[1]]]
        ELSE [ok |-> FALSE, value |-> None]

\* ------------------------------------------------------------ exceptions
\* str(e) of the exception is msg, the sequence of its characters
Exc(type, msg) == [type |-> type, msg |-> msg]

\* the text of the retry-later exception of _query_llm (without its emoji)
QUOTA_MESSAGE ==
    <<"O", "u", "r", " ", "A", "I", " ", "a", "s", "s", "i", "s", "t", "a", "n", "t", " ", "i", "s", " ", "t", "a", "k", "i", "n", "g", " ", "a", " ", "p", "o", "w", "e", "r", " ", "n", "a", "p", " ", "r", "i", "g", "h", "t", " ", "n", "o", "w", "!", " ", "I", "t", "'", "s", " ", "b", "e", "e", "n", " ">>
    \o <<"w", "o", "r", "k", "i", "n", "g", " ", "h", "a", "r", "d", " ", "a", "n", "d", " ", "n", "e", "e", "d", "s", " ", "t", "o", " ", "r", "e", "c", "h", "a", "r", "g", "e", ".", " ", "P", "l", "e", "a", "s", "e", " ", "t", "r", "y", " ", "a", "g", "a", "i", "n", " ", "i", "n", " ", "a", " ", "f", "e">>
    \o <<"w", " ", "m", "o", "m", "e", "n", "t", "s", ",", " ", "o", "r", " ", "c", "o", "n", "t", "a", "c", "t", " ", "s", "u", "p", "p", "o", "r", "t", " ", "i", "f", " ", "t", "h", "i", "s", " ", "p", "e", "r", "s", "i", "s", "t", "s", ".">>

STR_429 == <<"4", "2", "9">>

STR_quota == <<"q", "u", "o", "t", "a">>

STR_rate_limit == <<"r", "a", "t", "e", " ", "l", "i", "m", "i", "t">>

\* ------------------------------------------------------- stage processor
AgentName ==
    [k \in Stages |->
        CASE k = 1 -> "Project Intake Agent"
          [] k = 2 -> "Technical Analyst Agent"
          [] k = 3 -> "Feasibility & Estimation Agent"
          [] k = 4 -> "Summary Agent"]

\* time.time() - start_time: some duration, whose value nothing depends on
Elapsed == "elapsed"

\* _query_llm handing on response.content as it came
query_llm_unstripped(outcome) ==
    IF outcome.kind = "text"
    THEN [raised |-> FALSE,
          value |-> [content |-> outcome.text, processing_time |-> Elapsed]]
    ELSE LET error_str == outcome.error.msg
         IN  IF \/ Contains(error_str, STR_429)
                \/ Contains(lower(error_str), STR_quota)
                \/ Contains(lower(error_str), STR_rate_limit)
             THEN [raised |-> TRUE, value |-> Exc("Exception", QUOTA_MESSAGE)]
             ELSE [raised |-> TRUE, value |-> outcome.error]

\* _query_llm testing the failure text for its markers as written, without
\* lower()
query_llm_case_sensitive(outcome) ==
    IF outcome.kind = "text"
    THEN [raised |-> FALSE,
          value |-> [content |-> strip_markdown_wrapper(outcome.text),
                     processing_time |-> Elapsed]]
    ELSE LET error_str == outcome.error.msg
         IN  IF \/ Contains(error_str, STR_429)
                \/ Contains(error_str, STR_quota)
                \/ Contains(error_str, STR_rate_limit)
             THEN [raised |-> TRUE, value |-> Exc("Exception", QUOTA_MESSAGE)]
             ELSE [raised |-> TRUE, value |-> outcome.error]

\* BaseAgent._query_llm on what llm.invoke does: it returns a text or raises
query_llm(outcome) ==
    IF outcome.kind = "text"
    THEN [raised |-> FALSE,
          value |-> [content |-> strip_markdown_wrapper(outcome.text),
                     processing_time |-> Elapsed]]
    ELSE LET error_str == outcome.error.msg
         IN  IF \/ Contains(error_str, STR_429)
                \/ Contains(lower(error_str), STR_quota)
                \/ Contains(lower(error_str), STR_rate_limit)
             THEN [raised |-> TRUE, value |-> Exc("Exception", QUOTA_MESSAGE)]
             ELSE [raised |-> TRUE, value |-> outcome.error]

\* str(analysis) of each JSON object with agent_name added: its number of
\* words and whether its lower case holds "specific" and "risk"
ReprOf ==
    [tok \in DOMAIN JsonValue |->
        CASE tok = "intake_obj" -> [words |-> 40, specific |-> FALSE, risk |-> FALSE]
          [] tok = "technical_obj" -> [words |-> 120, specific |-> TRUE, risk |-> FALSE]
          [] tok = "estimation_obj" -> [words |-> 80, specific |-> FALSE, risk |-> TRUE]
          [] tok = "summary_obj" -> [words |-> 100, specific |-> TRUE, risk |-> TRUE]
          [] OTHER -> [words |-> 10, specific |-> FALSE, risk |-> FALSE]]

Min(a, b) == IF a <= b THEN a ELSE b

\* BaseAgent.calculate_confidence, in 1/3000: the mean of the three factors,
\* each in 1/1000
calculate_confidence(repr) ==
    Min(repr.words * 10, 1000)
    + (IF repr.specific THEN 800 ELSE 600)
    + (IF repr.risk THEN 900 ELSE 700)

\* 0.3 in 1/3000
DEGRADED_CONFIDENCE == 900

degraded(k, response) ==
    [agent_name |-> AgentName[k],
     error |-> "Failed to parse agent response",
     raw_response |-> response.content,
     confidence |-> DEGRADED_CONFIDENCE,
     processing_time |-> response.processing_time]

STR_list_indices == <<"l", "i", "s", "t", " ", "i", "n", "d", "i", "c", "e", "s", " ", "m", "u", "s", "t", " ", "b", "e", " ", "i", "n", "t", "e", "g", "e", "r", "s", " ", "o", "r", " ", "s", "l", "i", "c", "e", "s", ",", " ", "n", "o", "t", " ", "s", "t", "r">>

STR_no_item_assignment == <<"o", "b", "j", "e", "c", "t", " ", "d", "o", "e", "s", " ", "n", "o", "t", " ", "s", "u", "p", "p", "o", "r", "t", " ", "i", "t", "e", "m", " ", "a", "s", "s", "i", "g", "n", "m", "e", "n", "t">>

\* analysis["agent_name"] = self.name on a value that is not a dict
item_assignment_error(value) ==
    IF value.t = "list" THEN Exc("TypeError", STR_list_indices)
    ELSE Exc("TypeError", STR_no_item_assignment)

\* The process method of agent k on what the model does and, for the
\* estimation agent, on the historical context it has looked up.  The
\* result is the returned dict or the exception raised.
process(k, outcome, historical_context) ==
    LET q == query_llm(outcome)
    IN  IF q.raised THEN q
        ELSE LET response == q.value
                 parsed == json_loads(response.content)
             IN  IF ~parsed.ok
                 THEN [raised |-> FALSE, value |-> degraded(k, response)]
                 ELSE IF parsed.value.t # "dict"
                 THEN [raised |-> TRUE, value |-> item_assignment_error(parsed.value)]
                 ELSE LET tok == strip(response.content)[1]
                          analysis ==
                              Merge(parsed.value.v,
                                    [agent_name |-> AgentName[k],
                                     confidence |-> calculate_confidence(ReprOf[tok]),
                                     processing_time |-> response.processing_time])
                      IN  [raised |-> FALSE,
                           value |-> IF k = 3
                                     THEN Put(analysis, "historical_insights", historical_context)
                                     ELSE analysis]

\* ---------------------------------------------------- employee matcher
\* role_skill_map of _extract_role_skills, in the order of the dict
role_skill_map ==
    <<
      [category |-> <<"f", "r", "o", "n", "t", "e", "n", "d">>,
       skills |-> <<
          <<"r", "e", "a", "c", "t">>,
          <<"v", "u", "e">>,
          <<"a", "n", "g", "u", "l", "a", "r">>,
          <<"t", "y", "p", "e", "s", "c", "r", "i", "p", "t">>,
          <<"j", "a", "v", "a", "s", "c", "r", "i", "p", "t">>,
          <<"h", "t", "m", "l">>,
          <<"c", "s", "s">>,
          <<"n", "e", "x", "t", ".", "j", "s">>,
          <<"t", "a", "i", "l", "w", "i", "n", "d">>
       >>],
      [category |-> <<"b", "a", "c", "k", "e", "n", "d">>,
       skills |-> <<
          <<"p", "y", "t", "h", "o", "n">>,
          <<"n", "o", "d", "e", ".", "j", "s">>,
          <<"j", "a", "v", "a">>,
          <<"c", "#">>,
          <<"g", "o">>,
          <<"d", "j", "a", "n", "g", "o">>,
          <<"f", "l", "a", "s", "k">>,
          <<"f", "a", "s", "t", "a", "p", "i">>,
          <<"s", "p", "r", "i", "n", "g">>,
          <<"e", "x", "p", "r", "e", "s", "s">>
       >>],
      [category |-> <<"f", "u", "l", "l", " ", "s", "t", "a", "c", "k">>,
       skills |-> <<
          <<"r", "e", "a", "c", "t">>,
          <<"p", "y", "t", "h", "o", "n">>,
          <<"n", "o", "d", "e", ".", "j", "s">>,
          <<"t", "y", "p", "e", "s", "c", "r", "i", "p", "t">>,
          <<"j", "a", "v", "a", "s", "c", "r", "i", "p", "t">>,
          <<"d", "j", "a", "n", "g", "o">>,
          <<"f", "l", "a", "s", "k">>,
          <<"e", "x", "p", "r", "e", "s", "s">>
       >>],
      [category |-> <<"m", "o", "b", "i", "l", "e">>,
       skills |-> <<
          <<"r", "e", "a", "c", "t", " ", "n", "a", "t", "i", "v", "e">>,
          <<"f", "l", "u", "t", "t", "e", "r">>,
          <<"s", "w", "i", "f", "t">>,
          <<"k", "o", "t", "l", "i", "n">>,
          <<"i", "o", "s">>,
          <<"a", "n", "d", "r", "o", "i", "d">>
       >>],
      [category |-> <<"d", "e", "v", "o", "p", "s">>,
       skills |-> <<
          <<"d", "o", "c", "k", "e", "r">>,
          <<"k", "u", "b", "e", "r", "n", "e", "t", "e", "s">>,
          <<"a", "w", "s">>,
          <<"a", "z", "u", "r", "e">>,
          <<"g", "c", "p">>,
          <<"c", "i", "/", "c", "d">>,
          <<"t", "e", "r", "r", "a", "f", "o", "r", "m">>,
          <<"j", "e", "n", "k", "i", "n", "s">>
       >>],
      [category |-> <<"d", "a", "t", "a">>,
       skills |-> <<
          <<"p", "y", "t", "h", "o", "n">>,
          <<"s", "q", "l">>,
          <<"p", "a", "n", "d", "a", "s">>,
          <<"n", "u", "m", "p", "y">>,
          <<"s", "p", "a", "r", "k">>,
          <<"h", "a", "d", "o", "o", "p">>,
          <<"t", "a", "b", "l", "e", "a", "u">>
       >>],
      [category |-> <<"a", "i">>,
       skills |-> <<
          <<"p", "y", "t", "h", "o", "n">>,
          <<"t", "e", "n", "s", "o", "r", "f", "l", "o", "w">>,
          <<"p", "y", "t", "o", "r", "c", "h">>,
          <<"s", "c", "i", "k", "i", "t", "-", "l", "e", "a", "r", "n">>,
          <<"n", "l", "p">>,
          <<"c", "o", "m", "p", "u", "t", "e", "r", " ", "v", "i", "s", "i", "o", "n">>
       >>],
      [category |-> <<"m", "l">>,
       skills |-> <<
          <<"p", "y", "t", "h", "o", "n">>,
          <<"t", "e", "n", "s", "o", "r", "f", "l", "o", "w">>,
          <<"p", "y", "t", "o", "r", "c", "h">>,
          <<"s", "c", "i", "k", "i", "t", "-", "l", "e", "a", "r", "n">>,
          <<"m", "a", "c", "h", "i", "n", "e", " ", "l", "e", "a", "r", "n", "i", "n", "g">>
       >>],
      [category |-> <<"q", "a">>,
       skills |-> <<
          <<"s", "e", "l", "e", "n", "i", "u", "m">>,
          <<"c", "y", "p", "r", "e", "s", "s">>,
          <<"j", "e", "s", "t">>,
          <<"p", "y", "t", "e", "s", "t">>,
          <<"t", "e", "s", "t", "i", "n", "g">>,
          <<"a", "u", "t", "o", "m", "a", "t", "i", "o", "n">>
       >>],
      [category |-> <<"d", "e", "s", "i", "g", "n", "e", "r">>,
       skills |-> <<
          <<"f", "i", "g", "m", "a">>,
          <<"s", "k", "e", "t", "c", "h">>,
          <<"a", "d", "o", "b", "e", " ", "x", "d">>,
          <<"u", "i", "/", "u", "x">>,
          <<"d", "e", "s", "i", "g", "n">>
       >>],
      [category |-> <<"p", "r", "o", "d", "u", "c", "t">>,
       skills |-> <<
          <<"a", "g", "i", "l", "e">>,
          <<"s", "c", "r", "u", "m">>,
          <<"p", "r", "o", "d", "u", "c", "t", " ", "m", "a", "n", "a", "g", "e", "m", "e", "n", "t">>,
          <<"j", "i", "r", "a">>
       >>],
      [category |-> <<"a", "r", "c", "h", "i", "t", "e", "c", "t">>,
       skills |-> <<
          <<"s", "y", "s", "t", "e", "m", " ", "d", "e", "s", "i", "g", "n">>,
          <<"a", "r", "c", "h", "i", "t", "e", "c", "t", "u", "r", "e">>,
          <<"m", "i", "c", "r", "o", "s", "e", "r", "v", "i", "c", "e", "s">>,
          <<"s", "c", "a", "l", "a", "b", "i", "l", "i", "t", "y">>
       >>]
    >>

\* the keywords of every category whose name occurs in the role title
RECURSIVE category_skills(_, _)
category_skills(role_lower, n) ==
    IF n > Len(role_skill_map) THEN << >>
    ELSE (IF Contains(role_lower, role_skill_map[n].category)
          THEN role_skill_map[n].skills ELSE << >>)
         \o category_skills(role_lower, n + 1)

InSeq(x, s) == \E i \in 1..Len(s) : s[i] = x

\* the loop over all_skills: a skill is appended, once, when some keyword
\* already in the list occurs in it or it occurs in some keyword
RECURSIVE add_matching_skills(_, _)
add_matching_skills(relevant_skills, all_skills) ==
    IF all_skills = << >> THEN relevant_skills
    ELSE LET skill == Head(all_skills)
             skill_lower == lower(skill)
             hit == \E i \in 1..Len(relevant_skills) :
                        \/ Contains(skill_lower, relevant_skills[i])
                        \/ Contains(relevant_skills[i], skill_lower)
         IN  add_matching_skills(
                 IF hit /\ ~InSeq(skill, relevant_skills)
                 THEN Append(relevant_skills, skill) ELSE relevant_skills,
                 Tail(all_skills))

\* EmployeeMatcher._extract_role_skills, on strs
extract_role_skills(role_title, all_skills) ==
    add_matching_skills(category_skills(lower(role_title), 1), all_skills)

STR_junior == <<"j", "u", "n", "i", "o", "r">>

STR_mid == <<"m", "i", "d">>

STR_mid_level == <<"m", "i", "d", "-", "l", "e", "v", "e", "l">>

STR_senior == <<"s", "e", "n", "i", "o", "r">>

STR_lead == <<"l", "e", "a", "d">>

STR_principal == <<"p", "r", "i", "n", "c", "i", "p", "a", "l">>

STR_staff == <<"s", "t", "a", "f", "f">>

\* seniority_levels.get(key, 2)
seniority_levels_get(key) ==
    CASE key = STR_junior -> 1
      [] key = STR_mid -> 2
      [] key = STR_mid_level -> 2
      [] key = STR_senior -> 3
      [] key = STR_lead -> 4
      [] key = STR_principal -> 5
      [] key = STR_staff -> 5
      [] OTHER -> 2

\* seniority_levels.get(s.lower(), 2)
seniority_level(s) == seniority_levels_get(lower(s))

Abs(n) == IF n < 0 THEN 0 - n ELSE n

\* EmployeeMatcher._seniority_compatible
seniority_compatible(required, employee) ==
    Abs(seniority_level(required) - seniority_level(employee)) <= 1

\* the employee skills that count: the first required skill that occurs in
\* the skill name, or in which it occurs, settles the skill
matched_skills(employee_skills, required_skills) ==
    SelectSeq(employee_skills,
              LAMBDA emp_skill :
                  \E i \in 1..Len(required_skills) :
                      \/ Contains(lower(emp_skill.skill_name), lower(required_skills[i]))
                      \/ Contains(lower(required_skills[i]), lower(emp_skill.skill_name)))

RECURSIVE skill_points(_)
skill_points(skills) ==
    IF skills = << >> THEN 0
    ELSE Min(Head(skills).proficiency_level * 2, 10) + skill_points(Tail(skills))

\* the first part of the score: 15 when a word of the role title longer than
\* three characters occurs in the employee's title
title_points(role_title, employee) ==
    LET title_keywords == split(lower(role_title))
    IN  IF \E i \in 1..Len(title_keywords) :
              /\ Len(title_keywords[i]) > 3
              /\ Contains(lower(employee.title), title_keywords[i])
        THEN 15 ELSE 0

\* the second part of the score
seniority_points(seniority, employee) ==
    IF lower(seniority) = lower(employee.seniority_level) THEN 20
    ELSE IF seniority_compatible(seniority, employee.seniority_level) THEN 10
    ELSE 0

\* the dict _calculate_match_score returns, of the capped score and the
\* employee skills that counted
score_data_of(employee, score, hits) ==
    [match_score |-> score,
     matching_skills |-> [i \in 1..Len(hits) |->
                             [skill |-> hits[i].skill_name,
                              proficiency |-> hits[i].proficiency_level,
                              years |-> hits[i].years_experience]],
     total_skills |-> Len(employee.skills),
     match_percentage |-> score]

\* the three parts of the score added without a cap
score_of_uncapped(employee, role_title, seniority, hits) ==
    score_data_of(employee,
                  title_points(role_title, employee)
                      + seniority_points(seniority, employee)
                      + skill_points(hits),
                  hits)

\* the three parts of the score added and capped at 100
score_of(employee, role_title, seniority, hits) ==
    score_data_of(employee,
                  Min(title_points(role_title, employee)
                      + seniority_points(seniority, employee)
                      + skill_points(hits), 100),
                  hits)

\* EmployeeMatcher._calculate_match_score, on strs
calculate_match_score(employee, role_title, seniority, required_skills) ==
    score_of(employee, role_title, seniority,
             IF employee.skills # << >> /\ required_skills # << >>
             THEN matched_skills(employee.skills, required_skills)
             ELSE << >>)

\* list.sort(key=match_score, reverse=True): stable, so an entry goes behind
\* the entries sorted so far whose score is not lower
insert_by_score(sorted, m) ==
    LET before == {i \in 0..Len(sorted) :
                      \A j \in 1..i : sorted[j].match_score >= m.match_score}
        n == CHOOSE i \in before : \A j \in before : j <= i
    IN  SubSeq(sorted, 1, n) \o <<m>> \o SubSeq(sorted, n + 1, Len(sorted))

RECURSIVE sort_by_score(_, _)
sort_by_score(sorted, rest) ==
    IF rest = << >> THEN sorted
    ELSE sort_by_score(insert_by_score(sorted, Head(rest)), Tail(rest))

\* the dict appended to matches for an employee
match_of(employee, score_data) ==
    [employee_id |-> employee.employee_id,
     name |-> employee.name,
     title |-> employee.title,
     seniority_level |-> employee.seniority_level,
     hourly_rate |-> employee.hourly_rate,
     availability |-> <<employee.availability_percentage, "%">>,
     location |-> employee.location,
     match_score |-> score_data.match_score,
     matching_skills |-> score_data.matching_skills,
     total_skills |-> score_data.total_skills,
     match_percentage |-> score_data.match_percentage]

\* the matches in the order of the employees, not sorted
find_matching_employees_unsorted(employees, role_title, seniority, required_skills) ==
    SelectSeq([i \in 1..Len(employees) |->
                  match_of(employees[i],
                           calculate_match_score(employees[i], role_title,
                                                 seniority, required_skills))],
              LAMBDA m : m.match_score > 0)

\* EmployeeMatcher._find_matching_employees
find_matching_employees(employees, role_title, seniority, required_skills) ==
    sort_by_score(
        << >>,
        SelectSeq([i \in 1..Len(employees) |->
                      match_of(employees[i],
                               calculate_match_score(employees[i], role_title,
                                                     seniority, required_skills))],
                  LAMBDA m : m.match_score > 0))

\* matched_employees[:3]
TOP_N == 3

Truncate(s, n) == SubSeq(s, 1, Min(n, Len(s)))

STR_empty == << >>

StrValues(list) == [i \in 1..Len(list) |-> list[i].v]

\* the matches added to the recommended_employees the role has already
recommended_extended(role, top) ==
    [raised |-> FALSE,
     role |-> JDict(Put(role.v, "recommended_employees",
                        JList(Get(role.v, "recommended_employees", JList(<< >>)).v
                              \o [i \in 1..Len(top) |-> JDict(top[i])])))]

\* role['recommended_employees'] = matched_employees[:3]
recommended(role, top) ==
    [raised |-> FALSE,
     role |-> JDict(Put(role.v, "recommended_employees",
                        JList([i \in 1..Len(top) |-> JDict(top[i])])))]

\* One turn of the loop of match_employees_to_roles: the role with its
\* recommended_employees set, or the AttributeError of a role that is no
\* dict or of a title, a seniority or a skill that is no str.
match_role(role, required_skills, available_employees) ==
    IF role.t # "dict" THEN [raised |-> TRUE, role |-> role]
    ELSE LET role_title == Get(role.v, "role", JStr(STR_empty))
             seniority == Get(role.v, "seniority", JStr(STR_empty))
         IN  IF \/ role_title.t # "str"
                \/ \E i \in 1..Len(required_skills) : required_skills[i].t # "str"
                \/ seniority.t # "str"
             THEN [raised |-> TRUE, role |-> role]
             ELSE recommended(
                      role,
                      Truncate(find_matching_employees(
                                   available_employees, role_title.v, seniority.v,
                                   extract_role_skills(role_title.v,
                                                       StrValues(required_skills))),
                               TOP_N))

\* The loop: the roles are changed in place, so the roles done before a
\* raise stay changed.  done is the list as the loop has left it so far.
RECURSIVE match_loop(_, _, _, _)
\* after the turn of the loop for Head(todo) has ended as r
match_loop_turn(r, done, todo, required_skills, available_employees) ==
    IF r.raised THEN [raised |-> TRUE, roles |-> done \o todo]
    ELSE match_loop(Append(done, r.role), Tail(todo), required_skills,
                    available_employees)

match_loop(done, todo, required_skills, available_employees) ==
    IF todo = << >> THEN [raised |-> FALSE, roles |-> done]
    ELSE match_loop_turn(match_role(Head(todo), required_skills, available_employees),
                         done, todo, required_skills, available_employees)

\* the list the loop has built, or left behind when it raised
enhanced_composition(r) == [raised |-> r.raised, roles |-> JList(r.roles)]

\* the matcher without its return for an empty roster
match_employees_to_roles_unguarded(team_composition, required_skills, available_employees) ==
    IF team_composition.t # "list"
    THEN [raised |-> TRUE, roles |-> team_composition]
    ELSE enhanced_composition(match_loop(<< >>, team_composition.v, required_skills,
                                         available_employees))

\* EmployeeMatcher.match_employees_to_roles on a team_composition that is
\* true in a condition.  roles is the team composition as the call leaves
\* it, also when it raises.
match_employees_to_roles(team_composition, required_skills, available_employees) ==
    IF available_employees = << >>
    THEN [raised |-> FALSE, roles |-> team_composition]
    ELSE IF team_composition.t # "list"
    THEN [raised |-> TRUE, roles |-> team_composition]
    ELSE enhanced_composition(match_loop(<< >>, team_composition.v, required_skills,
                                         available_employees))

\* ----------------------------------------------------------- coordinator
\* The keys of a dict in the order the loop visits them.  The JSON objects
\* of this model have at most one technology category, so the order of
\* insertion is the only order there is.
RECURSIVE KeysOf(_)
KeysOf(keys) ==
    IF keys = {} THEN << >>
    ELSE LET k == CHOOSE x \in keys : TRUE IN <<k>> \o KeysOf(keys \ {k})

\* the skills one category of the recommended stack contributes
details_skills(details) ==
    IF details.t = "dict"
    THEN (IF "primary" \in DOMAIN details.v THEN <<details.v["primary"]>> ELSE << >>)
         \o (IF "ui_framework" \in DOMAIN details.v
             THEN <<details.v["ui_framework"]>> ELSE << >>)
         \o (IF "state_management" \in DOMAIN details.v
             THEN <<details.v["state_management"]>> ELSE << >>)
    ELSE IF details.t = "str" THEN <<details>>
    ELSE << >>

RECURSIVE stack_skills(_, _)
stack_skills(tech_stack, categories) ==
    IF categories = << >> THEN << >>
    ELSE details_skills(tech_stack[Head(categories)])
         \o stack_skills(tech_stack, Tail(categories))

STR_third_party_apis == <<"t", "h", "i", "r", "d", "_", "p", "a", "r", "t", "y", "_", "a", "p", "i", "s">>

\* AgentOrchestrator._extract_required_skills: the list of skills, or the
\* error of a recommended_tech_stack without items() or of
\* integration_requirements that cannot be searched or indexed by a key
extract_required_skills(technical_result) ==
    LET tech_stack == Get(technical_result, "recommended_tech_stack", JDict(EmptyDict))
        integration_reqs == Get(technical_result, "integration_requirements",
                                JDict(EmptyDict))
    IN  IF tech_stack.t # "dict" THEN [raised |-> TRUE, skills |-> << >>]
        ELSE LET skills == stack_skills(tech_stack.v, KeysOf(DOMAIN tech_stack.v))
             IN  CASE integration_reqs.t = "none" -> [raised |-> TRUE, skills |-> << >>]
                   [] integration_reqs.t = "list" ->
                        [raised |-> InSeq(JStr(STR_third_party_apis), integration_reqs.v),
                         skills |-> skills]
                   [] integration_reqs.t = "str" ->
                        [raised |-> Contains(integration_reqs.v, STR_third_party_apis),
                         skills |-> skills]
                   [] integration_reqs.t = "dict" ->
                        LET apis == Get(integration_reqs.v, "third_party_apis", None)
                        IN  [raised |-> FALSE,
                             skills |-> IF apis.t = "list" THEN skills \o apis.v
                                        ELSE skills]

\* the truth of a decoded value in a condition
Truthy(value) ==
    CASE value.t = "none" -> FALSE
      [] value.t = "list" -> value.v # << >>
      [] value.t = "str" -> value.v # << >>
      [] value.t = "dict" -> DOMAIN value.v # {}

\* estimation_result['team_composition'] = enhanced_team, or the roles as
\* the matcher left them when it raised
enhanced_team(estimation_result, m) ==
    [raised |-> m.raised, called |-> TRUE,
     estimation_result |-> Put(estimation_result, "team_composition", m.roles)]

\* Step 3.5 of analyze_project: the estimation result as the step leaves it.
\* An exception of the step is caught and logged; what the matcher has
\* changed in place by then stays changed.
employee_matching(estimation_result, technical_result, available_employees) ==
    LET team_composition == Get(estimation_result, "team_composition", JList(<< >>))
        required == extract_required_skills(technical_result)
    IN  IF required.raised
        THEN [raised |-> TRUE, called |-> FALSE, estimation_result |-> estimation_result]
        ELSE IF ~Truthy(team_composition)
        THEN [raised |-> FALSE, called |-> FALSE, estimation_result |-> estimation_result]
        ELSE enhanced_team(estimation_result,
                           match_employees_to_roles(team_composition, required.skills,
                                                    available_employees))

\* ------------------------------------------------------------ sample data
\* Two rosters: no employee data, and two active employees with skills.
STR_Python == <<"P", "y", "t", "h", "o", "n">>

STR_Selenium == <<"S", "e", "l", "e", "n", "i", "u", "m">>

STR_Senior_Backend_Engineer == <<"S", "e", "n", "i", "o", "r", " ", "B", "a", "c", "k", "e", "n", "d", " ", "E", "n", "g", "i", "n", "e", "e", "r">>

STR_QA_Analyst == <<"Q", "A", " ", "A", "n", "a", "l", "y", "s", "t">>

EmployeeAda ==
    [employee_id |-> "E1", name |-> "Ada", title |-> STR_Senior_Backend_Engineer,
     seniority_level |-> STR_Senior, hourly_rate |-> 90, availability_percentage |-> 100,
     location |-> "Remote",
     skills |-> <<[skill_name |-> STR_Python, proficiency_level |-> 5,
                   years_experience |-> 8],
                  [skill_name |-> STR_FastAPI, proficiency_level |-> 4,
                   years_experience |-> 3]>>]

EmployeeBob ==
    [employee_id |-> "E2", name |-> "Bob", title |-> STR_QA_Analyst,
     seniority_level |-> STR_Mid, hourly_rate |-> 60, availability_percentage |-> 50,
     location |-> "Berlin",
     skills |-> <<[skill_name |-> STR_Selenium, proficiency_level |-> 3,
                   years_experience |-> 2]>>]

Rosters == {<< >>, <<EmployeeAda, EmployeeBob>>}

\* Request bodies: description is the name of a text and length its length.
RequestBodies ==
    {[description |-> "nine characters", length |-> 9, industry |-> None],
     [description |-> "ten characters", length |-> 10, industry |-> None],
     [description |-> "five thousand characters", length |-> 5000,
      industry |-> JStr(STR_web_app)],
     [description |-> "too long", length |-> 5001, industry |-> None]}

\* What llm.invoke may do.
Text(tokens) == [kind |-> "text", text |-> tokens]

Raises(type, msg) == [kind |-> "raise", error |-> Exc(type, msg)]

Fenced(tokens) == <<FENCE, TAG, NL>> \o tokens \o <<NL, FENCE>>

PROSE == "prose"

STR_connection_refused == <<"c", "o", "n", "n", "e", "c", "t", "i", "o", "n", " ", "r", "e", "f", "u", "s", "e", "d">>

STR_429_exhausted == <<"4", "2", "9", " ", "R", "e", "s", "o", "u", "r", "c", "e", " ", "e", "x", "h", "a", "u", "s", "t", "e", "d">>

STR_Quota_exceeded == <<"Q", "u", "o", "t", "a", " ", "e", "x", "c", "e", "e", "d", "e", "d">>

Failures ==
    {Raises("ConnectionError", STR_connection_refused),
     Raises("ResourceExhausted", STR_429_exhausted),
     Raises("ResourceExhausted", STR_Quota_exceeded),
     Raises("RateLimitError",
            <<"R", "a", "t", "e", " ", "L", "i", "m", "i", "t", " ", "r", "e", "a", "c", "h", "e", "d">>),
     Raises("RuntimeError",
            <<"p", "l", "e", "a", "s", "e", " ", "r", "e", "c", "h", "a", "r", "g", "e">>)}

\* the objects a stage is asked for
StageObjects ==
    [k \in 0..4 |->
        CASE k = 0 -> {}
          [] k = 1 -> {"intake_obj"}
          [] k = 2 -> {"technical_obj", "technical_stack_list"}
          [] k = 3 -> {"estimation_obj", "estimation_null_seniority", "estimation_no_team"}
          [] k = 4 -> {"summary_obj", "summary_flat"}]

\* the texts the model may answer stage k with: an object bare, fenced, or
\* fenced on one line; JSON that is no object; prose
StageTexts(k) ==
    {Text(<<tok>>) : tok \in StageObjects[k]}
    \cup {Text(Fenced(<<tok>>)) : tok \in StageObjects[k]}
    \cup {Text(<<FENCE, TAG, tok, FENCE>>) : tok \in StageObjects[k]}
    \cup {Text(<<"array">>), Text(<<"null">>), Text(<<PROSE, SP, PROSE>>),
          Text(Fenced(<<PROSE>>)), Text(<< >>)}

Lookups ==
    {[raises |-> TRUE, similar_projects |-> << >>, data_confidence |-> 0],
     [raises |-> FALSE, similar_projects |-> << >>, data_confidence |-> 1500]}

\* ------------------------------------------------------------------ state
VARIABLES
    analysis_storage,   \* memory_storage.analysis_storage: id -> record
    roster,             \* the active employees of the CSV files, as loaded
    pc,                 \* per id: where its background task is
    stage,              \* per id: the stage dispatched last (0: none yet)
    frame,              \* per id: the local variables of analyze_project
    arg,                \* per id: the context handed to the process call in flight
    future,             \* per id: what that process call returned or raised
    trace,              \* per id: what has happened (history)
    probe               \* a stage processor called on its own: input and output

vars == <<analysis_storage, roster, pc, stage, frame, arg, future, trace, probe>>

\* ProjectInput.description: Field(min_length=10, max_length=5000)
MIN_LENGTH == 10

MAX_LENGTH == 5000

\* datetime.utcnow().isoformat(), named by the call that reads the clock
Now(call) == <<"utcnow", call>>

\* memory_storage.save_analysis
save_analysis(storage, analysis_id, data) ==
    Put(storage, analysis_id,
        Merge(data, [analysis_id |-> analysis_id, updated_at |-> Now("save_analysis")]))

\* memory_storage.get_analysis: the record, or None
get_analysis(storage, analysis_id) ==
    IF analysis_id \in DOMAIN storage THEN storage[analysis_id] ELSE None

\* the update creating the record it does not find
update_analysis_status_upsert(storage, analysis_id, status, kwargs) ==
    Put(storage, analysis_id,
        Merge(Merge(IF analysis_id \in DOMAIN storage THEN storage[analysis_id]
                    ELSE EmptyDict,
                    [status |-> status, updated_at |-> Now("update_analysis_status")]),
              kwargs))

\* the update applied to every record of the store
update_analysis_status_every_record(storage, analysis_id, status, kwargs) ==
    [k \in DOMAIN storage |->
        Merge(Merge(storage[k],
                    [status |-> status, updated_at |-> Now("update_analysis_status")]),
              kwargs)]

\* memory_storage.update_analysis_status
update_analysis_status(storage, analysis_id, status, kwargs) ==
    IF analysis_id \in DOMAIN storage
    THEN Put(storage, analysis_id,
             Merge(Merge(storage[analysis_id],
                         [status |-> status, updated_at |-> Now("update_analysis_status")]),
                   kwargs))
    ELSE storage

\* GET /analysis/{analysis_id}: the record, or 404
get_status(storage, analysis_id) ==
    LET analysis == get_analysis(storage, analysis_id)
    IN  IF analysis = None THEN [code |-> 404, body |-> None]
        ELSE [code |-> 200, body |-> analysis]

\* project_input.dict()
project_input_dict(body) ==
    [description |-> body.description,
     company_size |-> None,
     budget_range |-> None,
     timeline_preference |-> None,
     industry |-> body.industry]

NoFuture == [raised |-> FALSE, value |-> EmptyDict, pending |-> TRUE]

NoTrace ==
    [invoked |-> << >>,                      \* the stages dispatched, in order
     returned |-> << >>,                     \* the stages whose call has ended
     llm_calls |-> [k \in Stages |-> 0],     \* llm.invoke calls per stage
     raised_at |-> 0,                        \* the stage whose call raised
     llm_failed |-> FALSE,                   \* llm.invoke itself raised
     llm_error |-> None,                     \* the exception llm.invoke raised
     results |-> << >>,                      \* what the stages returned, in order
     matching_runs |-> 0,                    \* runs of step 3.5
     matcher_called |-> FALSE,               \* step 3.5 called the matcher
     matcher_raised |-> FALSE,               \* step 3.5 caught an exception
     lookup_raised |-> FALSE]                \* _get_historical_context caught one

NoProbe == [text |-> << >>, called |-> FALSE, stage |-> 0, output |-> NoFuture]

\* nothing submitted yet
NothingSubmitted ==
    /\ analysis_storage = EmptyDict
    /\ pc = [a \in Ids |-> "none"]
    /\ stage = [a \in Ids |-> 0]
    /\ frame = [a \in Ids |-> EmptyDict]
    /\ arg = [a \in Ids |-> EmptyDict]
    /\ future = [a \in Ids |-> NoFuture]
    /\ trace = [a \in Ids |-> NoTrace]

Init ==
    /\ NothingSubmitted
    /\ roster \in Rosters
    /\ probe = NoProbe

\* analyze_project_route saving the record with the default status of
\* ProjectAnalysis
analyze_project_route_pending(analysis_id, body) ==
    /\ analysis_id \notin DOMAIN analysis_storage
    /\ pc[analysis_id] = "none"
    /\ MIN_LENGTH <= body.length /\ body.length <= MAX_LENGTH
    /\ analysis_storage' =
           save_analysis(analysis_storage, analysis_id,
                         [input_description |-> body.description,
                          status |-> "pending",
                          created_at |-> Now("analyze_project")])
    /\ pc' = [pc EXCEPT ![analysis_id] = "queued"]
    /\ frame' = [frame EXCEPT ![analysis_id] =
                    [project_description |-> body.description,
                     context |-> project_input_dict(body)]]
    /\ UNCHANGED <<roster, stage, arg, future, trace, probe>>

\* analyze_project_route awaiting run_analysis instead of queueing it: the
\* intake agent is dispatched before the route returns
analyze_project_route_inline(analysis_id, body) ==
    /\ analysis_id \notin DOMAIN analysis_storage
    /\ pc[analysis_id] = "none"
    /\ MIN_LENGTH <= body.length /\ body.length <= MAX_LENGTH
    /\ analysis_storage' =
           save_analysis(analysis_storage, analysis_id,
                         [input_description |-> body.description,
                          status |-> "processing",
                          created_at |-> Now("analyze_project")])
    /\ pc' = [pc EXCEPT ![analysis_id] = "running"]
    /\ stage' = [stage EXCEPT ![analysis_id] = 1]
    /\ frame' = [frame EXCEPT ![analysis_id] =
                    [project_description |-> body.description,
                     context |-> project_input_dict(body)]]
    /\ arg' = [arg EXCEPT ![analysis_id] = project_input_dict(body)]
    /\ trace' = [trace EXCEPT ![analysis_id].invoked = <<1>>]
    /\ UNCHANGED <<roster, future, probe>>

\* POST /analyze with a body that passed validation, and uuid4 giving
\* analysis_id: the record is saved and run_analysis is queued
analyze_project_route(analysis_id, body) ==
    /\ analysis_id \notin DOMAIN analysis_storage
    /\ pc[analysis_id] = "none"
    /\ MIN_LENGTH <= body.length /\ body.length <= MAX_LENGTH
    /\ analysis_storage' =
           save_analysis(analysis_storage, analysis_id,
                         [input_description |-> body.description,
                          status |-> "processing",
                          created_at |-> Now("analyze_project")])
    /\ pc' = [pc EXCEPT ![analysis_id] = "queued"]
    /\ frame' = [frame EXCEPT ![analysis_id] =
                    [project_description |-> body.description,
                     context |-> project_input_dict(body)]]
    /\ UNCHANGED <<roster, stage, arg, future, trace, probe>>

\* ------------------------------------------------------- the background task
\* context or {}
hints(f) == IF f.context = None THEN EmptyDict ELSE f.context

technical_context(f) == Merge(hints(f), [intake_analysis |-> f.intake_result])

\* estimation_context without the technical result
estimation_context_short(f) ==
    Merge(hints(f), [intake_analysis |-> f.intake_result])

estimation_context(f) ==
    Merge(hints(f), [intake_analysis |-> f.intake_result,
                     technical_analysis |-> f.technical_result])

summary_context(f) ==
    Merge(hints(f), [intake_analysis |-> f.intake_result,
                     technical_analysis |-> f.technical_result,
                     estimation_analysis |-> f.estimation_result])

\* _run_agent_async: agent k's process is handed to the executor with this
\* context and the coroutine waits for it
run_agent_async(a, k, f, context) ==
    /\ pc' = [pc EXCEPT ![a] = "running"]
    /\ stage' = [stage EXCEPT ![a] = k]
    /\ frame' = [frame EXCEPT ![a] = f]
    /\ arg' = [arg EXCEPT ![a] = context]
    /\ future' = [future EXCEPT ![a] = NoFuture]

\* run_analysis starts: analyze_project dispatches the intake agent
run_analysis_start(a) ==
    /\ pc[a] = "queued"
    /\ run_agent_async(a, 1, frame[a], frame[a].context)
    /\ trace' = [trace EXCEPT ![a].invoked = Append(@, 1)]
    /\ UNCHANGED <<analysis_storage, roster, probe>>

STR_lookup_failed == <<"l", "o", "o", "k", "u", "p", " ", "f", "a", "i", "l", "e", "d">>

\* EstimationAgent._get_historical_context: the insights, or the error
\* marker when anything in the lookup raises
get_historical_context(lookup) ==
    IF lookup.raises THEN [error |-> STR_lookup_failed]
    ELSE [similar_projects |-> lookup.similar_projects,
          data_confidence |-> lookup.data_confidence]

\* the call of agent k's process has ended as r: the awaited future holds
\* its result or its exception
future_set(a, k, outcome, lookup, r) ==
    /\ future' = [future EXCEPT ![a] =
                     [raised |-> r.raised, value |-> r.value, pending |-> FALSE]]
    /\ trace' = [trace EXCEPT ![a].llm_calls[k] = @ + 1,
                              ![a].returned = Append(@, k),
                              ![a].raised_at = IF r.raised THEN k ELSE @,
                              ![a].llm_failed = (outcome.kind = "raise"),
                              ![a].llm_error = IF outcome.kind = "raise"
                                               THEN outcome.error ELSE @,
                              ![a].results = IF r.raised THEN @
                                             ELSE Append(@, r.value),
                              ![a].lookup_raised = IF k = 3 THEN lookup.raises ELSE @]

\* agent.process with a lookup whose exception is not caught
agent_process_lookup_fatal(a, outcome, lookup) ==
    /\ pc[a] = "running"
    /\ future_set(a, stage[a], outcome, lookup,
                  IF stage[a] = 3 /\ lookup.raises
                  THEN [raised |-> TRUE, value |-> Exc("Exception", STR_lookup_failed)]
                  ELSE process(stage[a], outcome, get_historical_context(lookup)))
    /\ pc' = [pc EXCEPT ![a] = "returned"]
    /\ UNCHANGED <<analysis_storage, roster, stage, frame, arg, probe>>

\* The executor runs agent.process: the model is invoked once and the call
\* returns a result or raises
agent_process(a, outcome, lookup) ==
    /\ pc[a] = "running"
    /\ future_set(a, stage[a], outcome, lookup,
                  process(stage[a], outcome, get_historical_context(lookup)))
    /\ pc' = [pc EXCEPT ![a] = "returned"]
    /\ UNCHANGED <<analysis_storage, roster, stage, frame, arg, probe>>

STR_power_nap == <<"p", "o", "w", "e", "r", " ", "n", "a", "p">>

STR_recharge == <<"r", "e", "c", "h", "a", "r", "g", "e">>

STR_Analysis_failed == <<"A", "n", "a", "l", "y", "s", "i", "s", " ", "f", "a", "i", "l", "e", "d", ":", " ">>

\* the except branch of run_analysis
friendly_message(error_message) ==
    IF Contains(error_message, STR_power_nap) \/ Contains(error_message, STR_recharge)
    THEN error_message
    ELSE STR_Analysis_failed \o error_message

\* the task is over: its local variables are gone
task_ends(a) ==
    /\ pc' = [pc EXCEPT ![a] = "done"]
    /\ frame' = [frame EXCEPT ![a] = EmptyDict]
    /\ arg' = [arg EXCEPT ![a] = EmptyDict]
    /\ future' = [future EXCEPT ![a] = NoFuture]

\* the failed update with a completed_at of its own
run_analysis_fails_stamped(a, e) ==
    /\ analysis_storage' =
           update_analysis_status(analysis_storage, a, "failed",
                                  [error |-> friendly_message(e.msg),
                                   completed_at |-> Now("run_analysis")])
    /\ task_ends(a)

\* the except branch of run_analysis: the failed update, and the task ends
run_analysis_fails(a, e) ==
    /\ analysis_storage' =
           update_analysis_status(analysis_storage, a, "failed",
                                  [error |-> friendly_message(e.msg)])
    /\ task_ends(a)

\* the exception logged and dropped: the task ends and the record stays
stage_raised_swallowed(a) ==
    /\ pc[a] = "returned"
    /\ future[a].raised
    /\ task_ends(a)
    /\ UNCHANGED <<analysis_storage, roster, stage, trace, probe>>

\* the exception logged and the analysis stored as completed
stage_raised_completed(a) ==
    /\ pc[a] = "returned"
    /\ future[a].raised
    /\ analysis_storage' =
           update_analysis_status(analysis_storage, a, "completed",
                                  [error |-> friendly_message(future[a].value.msg)])
    /\ task_ends(a)
    /\ UNCHANGED <<roster, stage, trace, probe>>

\* a retry: after the retry-later exception the same agent is dispatched again
stage_raised_retries(a) ==
    /\ pc[a] = "returned"
    /\ future[a].raised
    /\ IF future[a].value.msg = QUOTA_MESSAGE
       THEN /\ run_agent_async(a, stage[a], frame[a], arg[a])
            /\ UNCHANGED analysis_storage
       ELSE run_analysis_fails(a, future[a].value) /\ UNCHANGED stage
    /\ UNCHANGED <<roster, trace, probe>>

\* the awaited call raised: analyze_project logs and raises again, and
\* run_analysis marks the analysis failed
stage_raised(a) ==
    /\ pc[a] = "returned"
    /\ future[a].raised
    /\ run_analysis_fails(a, future[a].value)
    /\ UNCHANGED <<roster, stage, trace, probe>>

\* the technical and the estimation agent dispatched together
intake_returned_gathers(a) ==
    /\ pc[a] = "returned" /\ stage[a] = 1 /\ ~future[a].raised
    /\ LET f == Put(frame[a], "intake_result", future[a].value)
       IN  run_agent_async(a, 2, f, technical_context(f))
    /\ trace' = [trace EXCEPT ![a].invoked = @ \o <<2, 3>>]
    /\ UNCHANGED <<analysis_storage, roster, probe>>

\* the intake agent returned: the technical agent is dispatched
intake_returned(a) ==
    /\ pc[a] = "returned" /\ stage[a] = 1 /\ ~future[a].raised
    /\ LET f == Put(frame[a], "intake_result", future[a].value)
       IN  run_agent_async(a, 2, f, technical_context(f))
    /\ trace' = [trace EXCEPT ![a].invoked = Append(@, 2)]
    /\ UNCHANGED <<analysis_storage, roster, probe>>

\* the technical agent returned: the estimation agent is dispatched
technical_returned(a) ==
    /\ pc[a] = "returned" /\ stage[a] = 2 /\ ~future[a].raised
    /\ LET f == Put(frame[a], "technical_result", future[a].value)
       IN  run_agent_async(a, 3, f, estimation_context(f))
    /\ trace' = [trace EXCEPT ![a].invoked = Append(@, 3)]
    /\ UNCHANGED <<analysis_storage, roster, probe>>

\* the summary agent dispatched with the estimation result as stage 3
\* returned it
summary_dispatched_unmatched(a, m) ==
    /\ LET f == Put(frame[a], "estimation_result", future[a].value)
       IN  run_agent_async(a, 4, f, summary_context(f))
    /\ trace' = [trace EXCEPT
           ![a].invoked = Append(@, 4),
           ![a].matching_runs = @ + 1,
           ![a].matcher_called = m.called,
           ![a].matcher_raised = m.raised]

\* step 3.5 has ended as m: the summary agent is dispatched
summary_dispatched(a, m) ==
    /\ LET f == Put(frame[a], "estimation_result", m.estimation_result)
       IN  run_agent_async(a, 4, f, summary_context(f))
    /\ trace' = [trace EXCEPT
           ![a].invoked = Append(@, 4),
           ![a].matching_runs = @ + 1,
           ![a].matcher_called = m.called,
           ![a].matcher_raised = m.raised]

\* the estimation agent returned: employees are matched to the roles and
\* the summary agent is dispatched
estimation_returned(a) ==
    /\ pc[a] = "returned" /\ stage[a] = 3 /\ ~future[a].raised
    /\ summary_dispatched(
           a, employee_matching(future[a].value, frame[a].technical_result, roster))
    /\ UNCHANGED <<analysis_storage, roster, probe>>

\* the weights 1, 1.2, 1.5, 1.3 of _calculate_overall_confidence, in tenths
WEIGHTS == <<10, 12, 15, 13>>

RECURSIVE weighted_sum(_, _)
weighted_sum(confidences, i) ==
    IF i > Len(confidences) THEN 0
    ELSE confidences[i] * WEIGHTS[i] + weighted_sum(confidences, i + 1)

RECURSIVE total_weight(_, _)
total_weight(n, i) == IF i > n THEN 0 ELSE WEIGHTS[i] + total_weight(n, i + 1)

\* 0.5 and 1.0 in 1/3000
DEFAULT_CONFIDENCE == 1500

FULL_CONFIDENCE == 3000

\* the weights not cut to the number of confidences present
calculate_overall_confidence_all_weights(agent_results) ==
    LET with == SelectSeq(agent_results, LAMBDA r : "confidence" \in DOMAIN r)
        confidences == [i \in 1..Len(with) |-> with[i]["confidence"]]
        num == weighted_sum(confidences, 1)
        den == total_weight(Len(WEIGHTS), 1)
    IN  IF confidences = << >> THEN [num |-> DEFAULT_CONFIDENCE, den |-> 1]
        ELSE IF num > FULL_CONFIDENCE * den THEN [num |-> FULL_CONFIDENCE, den |-> 1]
        ELSE [num |-> num, den |-> den]

\* AgentOrchestrator._calculate_overall_confidence: the fraction num/den, in
\* 1/3000, of the weighted mean of the confidences present, at most 1.0
calculate_overall_confidence(agent_results) ==
    LET with == SelectSeq(agent_results, LAMBDA r : "confidence" \in DOMAIN r)
        confidences == [i \in 1..Len(with) |-> with[i]["confidence"]]
        num == weighted_sum(confidences, 1)
        den == total_weight(Len(confidences), 1)
    IN  IF confidences = << >> THEN [num |-> DEFAULT_CONFIDENCE, den |-> 1]
        ELSE IF num > FULL_CONFIDENCE * den THEN [num |-> FULL_CONFIDENCE, den |-> 1]
        ELSE [num |-> num, den |-> den]

\* the dict analyze_project returns
final_analysis(f) ==
    [input_description |-> f.project_description,
     intake_analysis |-> f.intake_result,
     technical_analysis |-> f.technical_result,
     estimation_analysis |-> f.estimation_result,
     summary |-> f.summary_result,
     overall_confidence |->
         calculate_overall_confidence(<<f.intake_result, f.technical_result,
                                        f.estimation_result, f.summary_result>>)]

STR_no_attribute_get == <<"o", "b", "j", "e", "c", "t", " ", "h", "a", "s", " ", "n", "o", " ", "a", "t", "t", "r", "i", "b", "u", "t", "e", " ", "'", "g", "e", "t", "'">>

\* The keyword arguments of the update of run_analysis that marks the
\* analysis completed, or the AttributeError of an executive_summary
\* that is no dict.
completed_fields(analysis_result) ==
    LET summary_data == Get(analysis_result, "summary", EmptyDict)
        technical_data == Get(analysis_result, "technical_analysis", EmptyDict)
        estimation_data == Get(analysis_result, "estimation_analysis", EmptyDict)
        executive_summary == Get(summary_data, "executive_summary", JDict(EmptyDict))
    IN  IF executive_summary.t # "dict"
        THEN [raised |-> TRUE, value |-> Exc("AttributeError", STR_no_attribute_get)]
        ELSE [raised |-> FALSE,
              value |->
                [completed_at |-> Now("run_analysis"),
                 intake_analysis |-> Get(analysis_result, "intake_analysis", EmptyDict),
                 technical_analysis |-> technical_data,
                 estimation_analysis |-> estimation_data,
                 summary_analysis |-> summary_data,
                 executive_summary |->
                     Get(executive_summary.v, "project_overview", JStr(STR_empty)),
                 tech_stack |->
                     Get(technical_data, "recommended_tech_stack", JDict(EmptyDict)),
                 team_composition |->
                     Get(estimation_data, "team_composition", JList(<< >>)),
                 timeline_breakdown |->
                     Get(estimation_data, "timeline_breakdown", JDict(EmptyDict)),
                 cost_estimate |->
                     Get(estimation_data, "cost_breakdown", JDict(EmptyDict)),
                 risks_and_dependencies |->
                     Get(summary_data, "major_risks", JList(<< >>))]]

\* run_analysis after analyze_project has returned: the completed update,
\* or the failed update when computing its arguments raised
analysis_returned(a, fields) ==
    IF fields.raised
    THEN run_analysis_fails(a, fields.value)
    ELSE /\ analysis_storage' =
                update_analysis_status(analysis_storage, a, "completed", fields.value)
         /\ task_ends(a)

\* the summary agent returned: analyze_project returns the final analysis
\* and run_analysis stores it, or fails on it
summary_returned(a) ==
    /\ pc[a] = "returned" /\ stage[a] = 4 /\ ~future[a].raised
    /\ analysis_returned(
           a, completed_fields(
                  final_analysis(Put(frame[a], "summary_result", future[a].value))))
    /\ UNCHANGED <<roster, stage, trace, probe>>

\* ------------------------------------------------------- the CSV data service
\* A row of a file is a record of its cells; empty holds the names of the
\* cells that are empty in the file, which pandas reads as NaN.
notna(row, col) == col \notin row.empty

\* str(row[col]): the text of a cell, "nan" for an empty one
str(row, col) == IF notna(row, col) THEN row[col] ELSE "nan"

\* set(list)
SetOf(list) == {list[i] : i \in 1..Len(list)}

Max(a, b) == IF a >= b THEN a ELSE b

\* the rows of projects_df that get_similar_projects keeps: the type, a
\* complexity_score between complexity_score - 2 and complexity_score + 2,
\* and the status completed
similar_rows(projects_df, project_type, complexity_score) ==
    SelectSeq(projects_df,
              LAMBDA project :
                  /\ project.project_type = project_type
                  /\ complexity_score - 2 <= project.complexity_score
                  /\ project.complexity_score <= complexity_score + 2
                  /\ project.status = "completed")

\* project_tech: the str of the three technology cells of the row
project_tech(project) ==
    <<str(project, "tech_stack_frontend"), str(project, "tech_stack_backend"),
      str(project, "tech_stack_database")>>

\* tech_similarity, as the fraction num/den:
\* len(set(tech_stack) & set(project_tech)) / max(len(set(tech_stack) | set(project_tech)), 1)
tech_similarity(tech_stack, project) ==
    [num |-> Cardinality(SetOf(tech_stack) \cap SetOf(project_tech(project))),
     den |-> Max(Cardinality(SetOf(tech_stack) \cup SetOf(project_tech(project))), 1)]

\* tech_similarity > 0.2
above_threshold(similarity) == similarity.num * 5 > similarity.den

\* the dict appended to results for a row
similar_project(project, similarity) ==
    [project_code |-> project.project_code,
     complexity_score |-> project.complexity_score,
     actual_duration_weeks |-> project.actual_duration_weeks,
     actual_cost |-> project.actual_cost,
     team_size |-> project.team_size,
     tech_stack |-> [frontend |-> project.tech_stack_frontend,
                     backend |-> project.tech_stack_backend,
                     database |-> project.tech_stack_database],
     on_time_delivery |-> project.on_time_delivery,
     within_budget |-> project.within_budget,
     client_satisfaction |-> project.client_satisfaction,
     empty |-> project.empty,
     tech_similarity |-> similarity]

\* a >= b for fractions of positive denominators
FracGeq(a, b) == a.num * b.den >= b.num * a.den

\* results.sort(key=tech_similarity, reverse=True): stable
insert_by_similarity(sorted, r) ==
    LET before == {i \in 0..Len(sorted) :
                      \A j \in 1..i : FracGeq(sorted[j].tech_similarity, r.tech_similarity)}
        n == CHOOSE i \in before : \A j \in before : j <= i
    IN  SubSeq(sorted, 1, n) \o <<r>> \o SubSeq(sorted, n + 1, Len(sorted))

RECURSIVE sort_by_similarity(_, _)
sort_by_similarity(sorted, rest) ==
    IF rest = << >> THEN sorted
    ELSE sort_by_similarity(insert_by_similarity(sorted, Head(rest)), Tail(rest))

\* results[:5]
TOP_PROJECTS == 5

\* the results in the order of the file, neither sorted nor cut
get_similar_projects_unsorted(projects_df, project_type, complexity_score, tech_stack) ==
    SelectSeq([i \in 1..Len(similar_rows(projects_df, project_type, complexity_score)) |->
                  similar_project(
                      similar_rows(projects_df, project_type, complexity_score)[i],
                      tech_similarity(
                          tech_stack,
                          similar_rows(projects_df, project_type, complexity_score)[i]))],
              LAMBDA r : above_threshold(r.tech_similarity))

\* CSVDataService.get_similar_projects, on a tech_stack of strs
get_similar_projects(projects_df, project_type, complexity_score, tech_stack) ==
    IF projects_df = << >> THEN << >>
    ELSE Truncate(
             sort_by_similarity(
                 << >>,
                 SelectSeq([i \in 1..Len(similar_rows(projects_df, project_type,
                                                      complexity_score)) |->
                               similar_project(
                                   similar_rows(projects_df, project_type,
                                                complexity_score)[i],
                                   tech_similarity(
                                       tech_stack,
                                       similar_rows(projects_df, project_type,
                                                    complexity_score)[i]))],
                           LAMBDA r : above_threshold(r.tech_similarity))),
             TOP_PROJECTS)

\* The projects of the sample files: costs in thousands, satisfaction in
\* tenths.  P2 has no database, P3 and P6 no actual cost.
ProjectPool ==
    <<
     [project_code |-> "P1", project_type |-> "web_app", complexity_score |-> 5,
      status |-> "completed", tech_stack_frontend |-> "React", tech_stack_backend |-> "FastAPI",
      tech_stack_database |-> "PostgreSQL", actual_cost |-> 100, actual_duration_weeks |-> 10,
      team_size |-> 4, estimated_duration_weeks |-> 10, estimated_cost |-> 100,
      on_time_delivery |-> TRUE, within_budget |-> TRUE, empty |-> {}, client_satisfaction |-> 45],
     [project_code |-> "P2", project_type |-> "web_app", complexity_score |-> 7,
      status |-> "completed", tech_stack_frontend |-> "React", tech_stack_backend |-> "FastAPI",
      tech_stack_database |-> "nan", actual_cost |-> 180, actual_duration_weeks |-> 16,
      team_size |-> 5, estimated_duration_weeks |-> 12, estimated_cost |-> 150,
      on_time_delivery |-> FALSE, within_budget |-> FALSE, empty |-> {"tech_stack_database"}, client_satisfaction |-> 38],
     [project_code |-> "P3", project_type |-> "web_app", complexity_score |-> 4,
      status |-> "completed", tech_stack_frontend |-> "React", tech_stack_backend |-> "Django",
      tech_stack_database |-> "PostgreSQL", actual_cost |-> 0, actual_duration_weeks |-> 8,
      team_size |-> 3, estimated_duration_weeks |-> 8, estimated_cost |-> 60,
      on_time_delivery |-> TRUE, within_budget |-> TRUE, empty |-> {"actual_cost"}, client_satisfaction |-> 50],
     [project_code |-> "P4", project_type |-> "web_app", complexity_score |-> 5,
      status |-> "completed", tech_stack_frontend |-> "Vue", tech_stack_backend |-> "Django",
      tech_stack_database |-> "PostgreSQL", actual_cost |-> 90, actual_duration_weeks |-> 9,
      team_size |-> 3, estimated_duration_weeks |-> 9, estimated_cost |-> 100,
      on_time_delivery |-> TRUE, within_budget |-> FALSE, empty |-> {}, client_satisfaction |-> 42],
     [project_code |-> "P5", project_type |-> "web_app", complexity_score |-> 8,
      status |-> "completed", tech_stack_frontend |-> "React", tech_stack_backend |-> "FastAPI",
      tech_stack_database |-> "PostgreSQL", actual_cost |-> 400, actual_duration_weeks |-> 30,
      team_size |-> 8, estimated_duration_weeks |-> 24, estimated_cost |-> 300,
      on_time_delivery |-> FALSE, within_budget |-> TRUE, empty |-> {}, client_satisfaction |-> 40],
     [project_code |-> "P6", project_type |-> "web_app", complexity_score |-> 5,
      status |-> "in_progress", tech_stack_frontend |-> "React", tech_stack_backend |-> "FastAPI",
      tech_stack_database |-> "PostgreSQL", actual_cost |-> 0, actual_duration_weeks |-> 0,
      team_size |-> 4, estimated_duration_weeks |-> 12, estimated_cost |-> 120,
      on_time_delivery |-> TRUE, within_budget |-> TRUE, empty |-> {"actual_cost"}, client_satisfaction |-> 45],
     [project_code |-> "P7", project_type |-> "mobile_app", complexity_score |-> 5,
      status |-> "completed", tech_stack_frontend |-> "React", tech_stack_backend |-> "FastAPI",
      tech_stack_database |-> "PostgreSQL", actual_cost |-> 150, actual_duration_weeks |-> 12,
      team_size |-> 4, estimated_duration_weeks |-> 12, estimated_cost |-> 150,
      on_time_delivery |-> TRUE, within_budget |-> TRUE, empty |-> {}, client_satisfaction |-> 35],
     [project_code |-> "P8", project_type |-> "web_app", complexity_score |-> 6,
      status |-> "completed", tech_stack_frontend |-> "React", tech_stack_backend |-> "Node.js",
      tech_stack_database |-> "PostgreSQL", actual_cost |-> 130, actual_duration_weeks |-> 11,
      team_size |-> 4, estimated_duration_weeks |-> 11, estimated_cost |-> 130,
      on_time_delivery |-> TRUE, within_budget |-> TRUE, empty |-> {}, client_satisfaction |-> 47],
     [project_code |-> "P9", project_type |-> "web_app", complexity_score |-> 6,
      status |-> "completed", tech_stack_frontend |-> "Angular", tech_stack_backend |-> "FastAPI",
      tech_stack_database |-> "PostgreSQL", actual_cost |-> 140, actual_duration_weeks |-> 12,
      team_size |-> 5, estimated_duration_weeks |-> 12, estimated_cost |-> 140,
      on_time_delivery |-> TRUE, within_budget |-> TRUE, empty |-> {}, client_satisfaction |-> 44]
    >>

RECURSIVE SumOf(_)
SumOf(numbers) == IF numbers = << >> THEN 0 ELSE Head(numbers) + SumOf(Tail(numbers))

Column(rows, name) == [i \in 1..Len(rows) |-> rows[i][name]]

\* the rows get_project_cost_estimates keeps: those of get_similar_projects
\* whose actual_cost is not empty
cost_rows(projects_df, project_type, complexity_score) ==
    SelectSeq(similar_rows(projects_df, project_type, complexity_score),
              LAMBDA project : notna(project, "actual_cost"))

\* the dict of the estimates, a mean being the fraction sum/count
cost_estimates_of(similar) ==
    [avg_cost |-> [num |-> SumOf(Column(similar, "actual_cost")), den |-> Len(similar)],
     min_cost |-> CHOOSE c \in SetOf(Column(similar, "actual_cost")) :
                      \A d \in SetOf(Column(similar, "actual_cost")) : c <= d,
     max_cost |-> CHOOSE c \in SetOf(Column(similar, "actual_cost")) :
                      \A d \in SetOf(Column(similar, "actual_cost")) : c >= d,
     avg_duration_weeks |-> [num |-> SumOf(Column(similar, "actual_duration_weeks")),
                             den |-> Len(similar)],
     avg_team_size |-> [num |-> SumOf(Column(similar, "team_size")), den |-> Len(similar)],
     cost_per_week |-> [num |-> SumOf(Column(similar, "actual_cost")),
                        den |-> SumOf(Column(similar, "actual_duration_weeks"))],
     cost_per_team_member |-> [num |-> SumOf(Column(similar, "actual_cost")),
                               den |-> SumOf(Column(similar, "team_size"))],
     sample_size |-> Len(similar)]

\* CSVDataService.get_project_cost_estimates
get_project_cost_estimates(projects_df, project_type, complexity_score) ==
    IF projects_df = << >> THEN EmptyDict
    ELSE IF cost_rows(projects_df, project_type, complexity_score) = << >> THEN EmptyDict
    ELSE cost_estimates_of(cost_rows(projects_df, project_type, complexity_score))

\* CSVDataService.get_team_performance_metrics
get_team_performance_metrics(employees_df) ==
    IF employees_df = << >> THEN EmptyDict
    ELSE [available_employees |->
              Len(SelectSeq(employees_df, LAMBDA row : row.is_active)),
          avg_hourly_rate |->
              [num |-> SumOf([i \in 1..Len(employees_df) |->
                                 employees_df[i].employee.hourly_rate]),
               den |-> Len(employees_df)],
          avg_availability |->
              [num |-> SumOf([i \in 1..Len(employees_df) |->
                                 employees_df[i].employee.availability_percentage]),
               den |-> Len(employees_df)],
          total_employees |-> Len(employees_df)]

\* client_satisfaction < 4.0, in tenths
LOW_SATISFACTION == 40

\* the issues of a row: the overruns in percent as fractions, nan when the
\* actual cost is empty
issues_of(project) ==
    (IF ~project.on_time_delivery
     THEN <<[issue |-> "Timeline overrun",
             nan |-> FALSE,
             num |-> (project.actual_duration_weeks
                          - project.estimated_duration_weeks) * 100,
             den |-> project.estimated_duration_weeks]>>
     ELSE << >>)
    \o (IF ~project.within_budget
        THEN <<[issue |-> "Budget overrun",
                nan |-> ~notna(project, "actual_cost"),
                num |-> (project.actual_cost - project.estimated_cost) * 100,
                den |-> project.estimated_cost]>>
        ELSE << >>)
    \o (IF project.client_satisfaction < LOW_SATISFACTION
        THEN <<[issue |-> "Low client satisfaction", nan |-> FALSE,
                num |-> project.client_satisfaction, den |-> 10]>>
        ELSE << >>)

\* the rows get_risk_indicators keeps
risky_rows(projects_df, project_type, complexity_score) ==
    SelectSeq(projects_df,
              LAMBDA project :
                  /\ project.project_type = project_type
                  /\ project.complexity_score >= complexity_score - 1
                  /\ \/ ~project.on_time_delivery
                     \/ ~project.within_budget
                     \/ project.client_satisfaction < LOW_SATISFACTION)

\* CSVDataService.get_risk_indicators
get_risk_indicators(projects_df, project_type, complexity_score) ==
    IF projects_df = << >> THEN << >>
    ELSE Truncate([i \in 1..Len(risky_rows(projects_df, project_type, complexity_score)) |->
                      [project_code |->
                           risky_rows(projects_df, project_type,
                                      complexity_score)[i].project_code,
                       issues |->
                           issues_of(risky_rows(projects_df, project_type,
                                                complexity_score)[i])]],
                  TOP_PROJECTS)

\* the columns in the order the loop of get_technology_usage_stats visits them
tech_columns == <<"tech_stack_frontend", "tech_stack_backend", "tech_stack_database">>

\* value_counts of a column: the cells that are not empty, counted
value_count(projects_df, col, tech) ==
    Cardinality({i \in 1..Len(projects_df) :
                    notna(projects_df[i], col) /\ projects_df[i][col] = tech})

\* the column whose count tech_usage holds for a technology: the last one
\* it occurs in
last_column(projects_df, tech) ==
    CHOOSE n \in 1..Len(tech_columns) :
        /\ value_count(projects_df, tech_columns[n], tech) > 0
        /\ \A m \in (n + 1)..Len(tech_columns) :
               value_count(projects_df, tech_columns[m], tech) = 0

\* the statistics computed without looking whether the file is empty
get_technology_usage_stats_unguarded(projects_df) ==
    [total_projects_analyzed |-> Len(projects_df),
     technology_stats |-> EmptyDict]

\* CSVDataService.get_technology_usage_stats: usage_percentage is
\* count * 100 / total_projects_analyzed
get_technology_usage_stats(projects_df) ==
    IF projects_df = << >> THEN EmptyDict
    ELSE [total_projects_analyzed |-> Len(projects_df),
          technology_stats |->
              [tech \in {projects_df[c[1]][tech_columns[c[2]]] :
                            c \in {d \in (1..Len(projects_df)) \X (1..Len(tech_columns)) :
                                      notna(projects_df[d[1]], tech_columns[d[2]])}} |->
                  [count |-> value_count(projects_df,
                                         tech_columns[last_column(projects_df, tech)],
                                         tech),
                   usage_percentage |->
                       [num |-> value_count(projects_df,
                                            tech_columns[last_column(projects_df, tech)],
                                            tech) * 100,
                        den |-> Len(projects_df)]]]]

\* CSVDataService.get_available_employees: the active employees with their
\* skills
get_available_employees(employees_df) ==
    IF employees_df = << >> THEN << >>
    ELSE [i \in 1..Len(SelectSeq(employees_df, LAMBDA row : row.is_active)) |->
             SelectSeq(employees_df, LAMBDA row : row.is_active)[i].employee]

\* ---------------------------------------------------------- specifications
\* One analysis, with every answer of the sample data.
Next ==
    \/ \E a \in Ids, body \in RequestBodies :
           analysis_storage = EmptyDict /\ analyze_project_route(a, body)
    \/ \E a \in Ids : run_analysis_start(a)
    \/ \E a \in Ids, lookup \in Lookups :
           \E outcome \in StageTexts(stage[a]) \cup Failures :
               agent_process(a, outcome, lookup)
    \/ \E a \in Ids : stage_raised(a)
    \/ \E a \in Ids : intake_returned(a)
    \/ \E a \in Ids : technical_returned(a)
    \/ \E a \in Ids : estimation_returned(a)
    \/ \E a \in Ids : summary_returned(a)

Spec == Init /\ [][Next]_vars

\* Analyses side by side: any number of them in flight, each stage answered
\* by an object or by a failure.
ConcurrentBodies == {b \in RequestBodies : b.length \in {9, 10}}

ConcurrentOutcomes(k) ==
    {Text(<<tok>>) : tok \in StageObjects[k] \cap {"intake_obj", "technical_obj",
                                                   "estimation_obj", "summary_obj",
                                                   "summary_flat"}}
    \cup {f \in Failures : f.error.msg \in {STR_connection_refused, STR_429_exhausted}}

ConcurrentLookup == CHOOSE l \in Lookups : ~l.raises

ConcurrentNext ==
    \/ \E a \in Ids, body \in ConcurrentBodies : analyze_project_route(a, body)
    \/ \E a \in Ids : run_analysis_start(a)
    \/ \E a \in Ids :
           \E outcome \in ConcurrentOutcomes(stage[a]) :
               agent_process(a, outcome, ConcurrentLookup)
    \/ \E a \in Ids : stage_raised(a)
    \/ \E a \in Ids : intake_returned(a)
    \/ \E a \in Ids : technical_returned(a)
    \/ \E a \in Ids : estimation_returned(a)
    \/ \E a \in Ids : summary_returned(a)

ConcurrentInit == Init /\ roster # << >>

ConcurrentSpec == ConcurrentInit /\ [][ConcurrentNext]_vars

\* Analyses side by side that differ: two descriptions, and a historical
\* lookup that may fail, so that the estimation results differ.
IsolationBodies == {b \in RequestBodies : b.length \in {10, 5000}}

\* each stage answered by its object, or the connection refused
IsolationOutcomes(k) ==
    {Text(<<tok>>) : tok \in StageObjects[k] \cap {"intake_obj", "technical_obj",
                                                   "estimation_obj", "summary_obj"}}
    \cup {f \in Failures : f.error.msg = STR_connection_refused}

\* only the estimation agent looks the history up
IsolationLookups(k) == IF k = 3 THEN Lookups ELSE {ConcurrentLookup}

IsolationNext ==
    \/ \E a \in Ids, body \in IsolationBodies : analyze_project_route(a, body)
    \/ \E a \in Ids : run_analysis_start(a)
    \/ \E a \in Ids :
           \E outcome \in IsolationOutcomes(stage[a]), lookup \in IsolationLookups(stage[a]) :
               agent_process(a, outcome, lookup)
    \/ \E a \in Ids : stage_raised(a)
    \/ \E a \in Ids : intake_returned(a)
    \/ \E a \in Ids : technical_returned(a)
    \/ \E a \in Ids : estimation_returned(a)
    \/ \E a \in Ids : summary_returned(a)

IsolationSpec == ConcurrentInit /\ [][IsolationNext]_vars

\* The store read while analyses run: GET /analysis/{analysis_id} with the id
\* of a record or with an id no submit has returned (0 is never one).
RequestedIds == Ids \cup {0}

get_analysis_route(analysis_id) ==
    /\ probe' = [analysis_id |-> analysis_id, called |-> TRUE,
                 output |-> get_status(analysis_storage, analysis_id)]
    /\ UNCHANGED <<analysis_storage, roster, pc, stage, frame, arg, future, trace>>

StoreNext ==
    \/ ConcurrentNext
    \/ \E analysis_id \in RequestedIds : get_analysis_route(analysis_id)

StoreSpec == ConcurrentInit /\ [][StoreNext]_vars

\* A stage processor on its own: any text of up to MaxTextLen tokens.
MaxTextLen == 5

Tokens == {FENCE, TAG, NL, SP, PROSE, "intake_obj"}

RECURSIVE TextsOfLen(_)
TextsOfLen(n) ==
    IF n = 0 THEN {<< >>}
    ELSE {Append(t, tok) : t \in TextsOfLen(n - 1), tok \in Tokens}

ProcessorTexts == UNION {TextsOfLen(n) : n \in 0..MaxTextLen}

ProcessorInit ==
    /\ NothingSubmitted
    /\ roster = << >>
    /\ probe \in {[NoProbe EXCEPT !.text = t] : t \in ProcessorTexts}

\* agent k's process, the model answering with the text
processor_called(k, lookup) ==
    /\ ~probe.called
    /\ LET r == process(k, Text(probe.text), get_historical_context(lookup))
       IN  probe' = [probe EXCEPT !.called = TRUE, !.stage = k,
                                  !.output = [raised |-> r.raised, value |-> r.value,
                                              pending |-> FALSE]]
    /\ UNCHANGED <<analysis_storage, roster, pc, stage, frame, arg, future, trace>>

ProcessorNext == \E k \in Stages, lookup \in Lookups : processor_called(k, lookup)

ProcessorSpec == ProcessorInit /\ [][ProcessorNext]_vars

\* The aggregation of the confidences on its own: up to four results, each
\* without a confidence or with one of 0, 0.3, 0.9, 1.0, 1.5 (in 1/3000).
SampleResults ==
    UNION {[1..n -> {[agent_name |-> "agent"]}
                    \cup {[agent_name |-> "agent", confidence |-> c] :
                             c \in {0, DEGRADED_CONFIDENCE, 2700, 3000, 4500}}] :
           n \in 0..4}

ConfidenceInit ==
    /\ NothingSubmitted
    /\ roster = << >>
    /\ probe \in {[agent_results |-> r, called |-> FALSE, output |-> None] :
                     r \in SampleResults}

overall_confidence_calculated ==
    /\ ~probe.called
    /\ probe' = [probe EXCEPT !.called = TRUE,
                              !.output = calculate_overall_confidence(probe.agent_results)]
    /\ UNCHANGED <<analysis_storage, roster, pc, stage, frame, arg, future, trace>>

ConfidenceSpec == ConfidenceInit /\ [][overall_confidence_calculated]_vars

\* The matcher on its own: rosters of up to MaxRoster active employees, in
\* the order of the CSV file or in the opposite order, drawn from six
\* employees: two who tie for the backend role, one whose only skill is no
\* keyword of any role, one whose skills add up to more than 100 points,
\* and one who scores 0 for it.
MaxRoster == 5

EmployeePool ==
    <<EmployeeAda, EmployeeBob,
        [employee_id |-> "E3", name |-> "Cy",
         title |-> <<"B", "a", "c", "k", "e", "n", "d", " ", "D", "e", "v", "e", "l", "o", "p", "e", "r">>,
         seniority_level |-> <<"S", "e", "n", "i", "o", "r">>, hourly_rate |-> 85, availability_percentage |-> 100,
         location |-> "Remote",
         skills |-> <<
                   [skill_name |-> <<"P", "o", "s", "t", "g", "r", "e", "S", "Q", "L">>, proficiency_level |-> 5,
                    years_experience |-> 6]>>],
        [employee_id |-> "E4", name |-> "Dee",
         title |-> <<"S", "e", "n", "i", "o", "r", " ", "B", "a", "c", "k", "e", "n", "d", " ", "E", "n", "g", "i", "n", "e", "e", "r">>,
         seniority_level |-> <<"S", "e", "n", "i", "o", "r">>, hourly_rate |-> 120, availability_percentage |-> 80,
         location |-> "Lisbon",
         skills |-> <<
                   [skill_name |-> <<"P", "y", "t", "h", "o", "n">>, proficiency_level |-> 5,
                    years_experience |-> 4],
                   [skill_name |-> <<"J", "a", "v", "a">>, proficiency_level |-> 5,
                    years_experience |-> 4],
                   [skill_name |-> <<"G", "o">>, proficiency_level |-> 5,
                    years_experience |-> 4],
                   [skill_name |-> <<"D", "j", "a", "n", "g", "o">>, proficiency_level |-> 5,
                    years_experience |-> 4],
                   [skill_name |-> <<"F", "l", "a", "s", "k">>, proficiency_level |-> 5,
                    years_experience |-> 4],
                   [skill_name |-> <<"F", "a", "s", "t", "A", "P", "I">>, proficiency_level |-> 5,
                    years_experience |-> 4],
                   [skill_name |-> <<"S", "p", "r", "i", "n", "g">>, proficiency_level |-> 5,
                    years_experience |-> 4],
                   [skill_name |-> <<"E", "x", "p", "r", "e", "s", "s">>, proficiency_level |-> 5,
                    years_experience |-> 4]>>],
        [employee_id |-> "E5", name |-> "Eve",
         title |-> <<"J", "u", "n", "i", "o", "r", " ", "D", "e", "s", "i", "g", "n", "e", "r">>,
         seniority_level |-> <<"J", "u", "n", "i", "o", "r">>, hourly_rate |-> 40, availability_percentage |-> 100,
         location |-> "Berlin",
         skills |-> <<
                   [skill_name |-> <<"F", "i", "g", "m", "a">>, proficiency_level |-> 2,
                    years_experience |-> 1]>>],
        [employee_id |-> "E6", name |-> "Fay",
         title |-> <<"B", "a", "c", "k", "e", "n", "d", " ", "E", "n", "g", "i", "n", "e", "e", "r">>,
         seniority_level |-> <<"S", "e", "n", "i", "o", "r">>, hourly_rate |-> 95, availability_percentage |-> 60,
         location |-> "Remote",
         skills |-> <<
                   [skill_name |-> <<"P", "y", "t", "h", "o", "n">>, proficiency_level |-> 5,
                    years_experience |-> 7],
                   [skill_name |-> <<"F", "l", "a", "s", "k">>, proficiency_level |-> 4,
                    years_experience |-> 5]>>]>>

Reverse(s) == [i \in 1..Len(s) |-> s[Len(s) + 1 - i]]

\* the rows of the file whose employees are active
RECURSIVE Rows(_, _, _)
Rows(file, active, i) ==
    IF i > Len(file) THEN << >>
    ELSE (IF i \in active THEN <<file[i]>> ELSE << >>) \o Rows(file, active, i + 1)

MatcherRosters ==
    {Rows(file, active, 1) :
        file \in {EmployeePool, Reverse(EmployeePool)},
        active \in {a \in SUBSET (1..Len(EmployeePool)) : Cardinality(a) <= MaxRoster}}

MatcherTeams ==
    {JList(<<RoleBackend>>),
     JList(<<RoleBackend, RoleQA>>),
     JList(<<JDict([role |-> JStr(<<"P", "r", "o", "d", "u", "c", "t", " ", "D", "e", "s", "i", "g", "n", "e", "r">>),
                    seniority |-> JStr(<<"L", "e", "a", "d">>)]),
             RoleBackend>>),
     JList(<<JDict([role |-> JStr(STR_Backend_Developer),
                    seniority |-> JStr(STR_Senior),
                    recommended_employees |-> JList(<<JStr(<<"Z", "e", "d">>)>>)])>>)}

MatcherSkills ==
    {<< >>,
     <<JStr(<<"P", "o", "s", "t", "g", "r", "e", "S", "Q", "L">>)>>,
     <<JStr(STR_Python), JStr(STR_FastAPI)>>,
     <<JStr(<<"P", "o", "s", "t", "g", "r", "e", "S", "Q", "L">>), JStr(STR_Python)>>}

MatcherInit ==
    /\ NothingSubmitted
    /\ roster \in MatcherRosters
    /\ probe \in {[team_composition |-> team, required_skills |-> skills, called |-> 0,
                    score |-> None, output |-> None, again |-> None] :
                      team \in MatcherTeams, skills \in MatcherSkills}

\* _calculate_match_score for employee i and role j, with the skills
\* _extract_role_skills derives for the role
calculate_match_score_called(i, j) ==
    /\ probe.called = 0 /\ probe.score = None
    /\ probe' = [probe EXCEPT !.score =
           [employee |-> roster[i],
            role |-> probe.team_composition.v[j],
            score_data |->
                calculate_match_score(
                    roster[i],
                    probe.team_composition.v[j].v["role"].v,
                    probe.team_composition.v[j].v["seniority"].v,
                    extract_role_skills(probe.team_composition.v[j].v["role"].v,
                                        StrValues(probe.required_skills)))]]
    /\ UNCHANGED <<analysis_storage, roster, pc, stage, frame, arg, future, trace>>

\* match_employees_to_roles called with the team and the skills
matcher_called ==
    /\ probe.called = 0 /\ probe.score = None
    /\ probe' = [probe EXCEPT !.called = 1,
                              !.output = match_employees_to_roles(
                                             probe.team_composition,
                                             probe.required_skills, roster)]
    /\ UNCHANGED <<analysis_storage, roster, pc, stage, frame, arg, future, trace>>

\* match_employees_to_roles called again, with the list the first call
\* returned
matcher_called_again ==
    /\ probe.called = 1
    /\ probe' = [probe EXCEPT !.called = 2,
                              !.again = match_employees_to_roles(
                                            probe.output.roles,
                                            probe.required_skills, roster)]
    /\ UNCHANGED <<analysis_storage, roster, pc, stage, frame, arg, future, trace>>

MatcherNext ==
    \/ \E i \in 1..Len(roster), j \in 1..Len(probe.team_composition.v) :
           calculate_match_score_called(i, j)
    \/ matcher_called
    \/ matcher_called_again

MatcherSpec == MatcherInit /\ [][MatcherNext]_vars

\* The data service on its own: a project file of up to MaxProjects rows of
\* the pool, in its order or the opposite one, an employee file, and a
\* request; then one lookup.
MaxProjects == 7

IndexProjects ==
    {Rows(file, kept, 1) :
        file \in {ProjectPool, Reverse(ProjectPool)},
        kept \in {k \in SUBSET (1..Len(ProjectPool)) : Cardinality(k) <= MaxProjects}}

IndexEmployees ==
    {<< >>,
     <<[employee |-> EmployeeBob, is_active |-> FALSE]>>,
     <<[employee |-> EmployeeAda, is_active |-> TRUE],
       [employee |-> EmployeeBob, is_active |-> FALSE]>>}

IndexRequests ==
    [project_type : {"web_app", "mobile_app"},
     complexity_score : {5, 6},
     tech_stack : {<<"React", "FastAPI">>, <<"React", "FastAPI", "PostgreSQL">>}]

IndexInit ==
    /\ NothingSubmitted
    /\ probe \in {[projects_df |-> projects, employees_df |-> employees, request |-> request,
                    called |-> "none", output |-> None] :
                      projects \in IndexProjects, employees \in IndexEmployees,
                      request \in IndexRequests}
    /\ roster = get_available_employees(probe.employees_df)

\* a lookup has returned output
lookup_returned(name, output) ==
    /\ probe' = [probe EXCEPT !.called = name, !.output = output]
    /\ UNCHANGED <<analysis_storage, roster, pc, stage, frame, arg, future, trace>>

similar_projects_called ==
    /\ probe.called = "none"
    /\ lookup_returned("get_similar_projects",
                       get_similar_projects(probe.projects_df, probe.request.project_type,
                                            probe.request.complexity_score,
                                            probe.request.tech_stack))

cost_estimates_called ==
    /\ probe.called = "none"
    /\ lookup_returned("get_project_cost_estimates",
                       get_project_cost_estimates(probe.projects_df,
                                                  probe.request.project_type,
                                                  probe.request.complexity_score))

team_performance_metrics_called ==
    /\ probe.called = "none"
    /\ lookup_returned("get_team_performance_metrics",
                       get_team_performance_metrics(probe.employees_df))

risk_indicators_called ==
    /\ probe.called = "none"
    /\ lookup_returned("get_risk_indicators",
                       get_risk_indicators(probe.projects_df, probe.request.project_type,
                                           probe.request.complexity_score))

technology_usage_stats_called ==
    /\ probe.called = "none"
    /\ lookup_returned("get_technology_usage_stats",
                       get_technology_usage_stats(probe.projects_df))

available_employees_called ==
    /\ probe.called = "none"
    /\ lookup_returned("get_available_employees",
                       get_available_employees(probe.employees_df))

IndexNext ==
    \/ similar_projects_called
    \/ cost_estimates_called
    \/ team_performance_metrics_called
    \/ risk_indicators_called
    \/ technology_usage_stats_called
    \/ available_employees_called

IndexSpec == IndexInit /\ [][IndexNext]_vars

\* --------------------------------------------------- the seniority component
\* The seniority score of _calculate_match_score on its own: the seniority a
\* role requires and the seniority_level of an employee are drawn from the
\* names _seniority_compatible knows, in two spellings, and one it does
\* not know.
SeniorityNames ==
    {<<"J", "u", "n", "i", "o", "r">>, STR_Mid,
     <<"M", "i", "d", "-", "l", "e", "v", "e", "l">>,
     STR_Senior, <<"S", "E", "N", "I", "O", "R">>,
     <<"L", "e", "a", "d">>,
     <<"P", "r", "i", "n", "c", "i", "p", "a", "l">>,
     <<"S", "t", "a", "f", "f">>,
     <<"I", "n", "t", "e", "r", "n">>}

SeniorityInit ==
    /\ NothingSubmitted
    /\ roster = << >>
    /\ probe \in [required : SeniorityNames, employee : SeniorityNames,
                  called : {FALSE}, points : {0}]

\* the seniority step of _calculate_match_score
seniority_points_called ==
    /\ ~probe.called
    /\ probe' = [probe EXCEPT
           !.called = TRUE,
           !.points = seniority_points(probe.required,
                                       [seniority_level |-> probe.employee])]
    /\ UNCHANGED <<analysis_storage, roster, pc, stage, frame, arg, future, trace>>

SenioritySpec == SeniorityInit /\ [][seniority_points_called]_vars

\* Fairness: the background task of every analysis keeps being scheduled,
\* and the model answers or fails every invocation.  A step of the task of
\* analysis a is a step that changes pc[a] from "queued", "running" or
\* "returned", and one is possible in each of these; so TaskFairness(a) is
\* WF_vars(TaskStep(a)) with ENABLED written out.  The start of the task is
\* given in the WF form as well.
TaskStep(a) ==
    \/ run_analysis_start(a)
    \/ \E outcome \in ConcurrentOutcomes(stage[a]) :
           agent_process(a, outcome, ConcurrentLookup)
    \/ stage_raised(a)
    \/ intake_returned(a)
    \/ technical_returned(a)
    \/ estimation_returned(a)
    \/ summary_returned(a)

TaskEnabled(a) == pc[a] \in {"queued", "running", "returned"}

TaskFairness(a) ==
    \/ []<>(~TaskEnabled(a))
    \/ []<><<TaskEnabled(a) /\ pc'[a] # pc[a]>>_vars

FairSpec ==
    ConcurrentSpec /\ \A a \in Ids : WF_vars(run_analysis_start(a)) /\ TaskFairness(a)

\* ------------------------------------------------------------------ claims
Status(a) == analysis_storage[a]["status"]

Stored == DOMAIN analysis_storage

IsPrefix(s, t) == Len(s) <= Len(t) /\ SubSeq(t, 1, Len(s)) = s

\* C1: the status of a stored analysis is always one of pending,
\* processing, completed, failed; the only changes of a status are
\* processing -> completed and processing -> failed; a record is never
\* removed, so completed and failed are final.
C1_StatusLifecycle ==
    [][/\ Stored \subseteq DOMAIN analysis_storage'
       /\ \A a \in DOMAIN analysis_storage' :
             /\ analysis_storage'[a]["status"] \in
                    {"pending", "processing", "completed", "failed"}
             /\ a \in Stored =>
                    \/ analysis_storage'[a]["status"] = Status(a)
                    \/ /\ Status(a) = "processing"
                       /\ analysis_storage'[a]["status"] \in {"completed", "failed"}]_vars

C1_Witness ==
    \E a \in Stored, b \in Stored : Status(a) = "completed" /\ Status(b) = "failed"

\* C2: a record that appears in the store appears under an id that had no
\* record, with status "processing", before any stage of that analysis has
\* been dispatched or any model invoked; get_status on the id then returns
\* the record with status "processing"; the records already stored keep
\* their description and creation time.
C2_SubmitReturnsProcessing ==
    [][/\ \A a \in (DOMAIN analysis_storage') \ Stored :
             /\ get_status(analysis_storage', a).code = 200
             /\ get_status(analysis_storage', a).body["status"] = "processing"
             /\ pc'[a] = "queued"
             /\ trace'[a].invoked = << >>
             /\ \A k \in Stages : trace'[a].llm_calls[k] = 0
       /\ \A a \in Stored :
             /\ a \in DOMAIN analysis_storage'
             /\ analysis_storage'[a]["input_description"]
                    = analysis_storage[a]["input_description"]
             /\ analysis_storage'[a]["created_at"] = analysis_storage[a]["created_at"]]_vars

C2_Witness ==
    \E a \in Stored, b \in Stored :
        /\ pc[a] = "queued" /\ Status(a) = "processing"
        /\ pc[b] \in {"running", "returned"}

\* C3: with fair scheduling of the tasks and a model that always answers or
\* fails, every stored analysis is eventually completed, or failed with an
\* error message.
C3_EventuallySettled ==
    \A a \in Ids :
        (a \in Stored) ~>
            (/\ a \in Stored
             /\ \/ Status(a) = "completed"
                \/ /\ Status(a) = "failed"
                   /\ "error" \in DOMAIN analysis_storage[a]
                   /\ analysis_storage[a]["error"] # << >>)

C3_Witness ==
    /\ \A a \in Ids : a \in Stored /\ pc[a] = "done"
    /\ \E a \in Ids : Status(a) = "failed" /\ analysis_storage[a]["error"] # << >>

\* the key of each stage's result in a context
ContextKey == <<"intake_analysis", "technical_analysis", "estimation_analysis">>

C5_Sequential ==
    \A a \in Ids :
        /\ IsPrefix(trace[a].invoked, <<1, 2, 3, 4>>)
        /\ IsPrefix(trace[a].returned, trace[a].invoked)
        /\ Len(trace[a].invoked) - Len(trace[a].returned) \in {0, 1}
        /\ (pc[a] = "running") <=> (Len(trace[a].invoked) - Len(trace[a].returned) = 1)

C5_Witness ==
    \E a \in Ids, b \in Ids :
        /\ pc[a] = "running" /\ stage[a] = 3
        /\ pc[b] = "running" /\ stage[b] = 1

\* C6: once the call of stage k has raised, no later stage is ever
\* dispatched, step 3.5 has not run if k <= 3, the record is never
\* "completed", and when the task is over the record is "failed" with a
\* non-empty error message.
C6_RaiseFailsAnalysis ==
    \A a \in Ids :
        trace[a].raised_at # 0 =>
            LET k == trace[a].raised_at
            IN  /\ trace[a].invoked = [j \in 1..k |-> j]
                /\ trace[a].returned = trace[a].invoked
                /\ k <= 3 => trace[a].matching_runs = 0
                /\ Status(a) # "completed"
                /\ pc[a] \in {"returned", "done"}
                /\ pc[a] = "done" =>
                       /\ Status(a) = "failed"
                       /\ "error" \in DOMAIN analysis_storage[a]
                       /\ analysis_storage[a]["error"] # << >>

C6_Witness ==
    \E a \in Ids :
        /\ trace[a].raised_at = 2 /\ trace[a].llm_failed
        /\ pc[a] = "done" /\ Status(a) = "failed"

\* C7: the model of a stage is invoked at most once in an analysis, and
\* once a call of a stage has raised (the model failed, with a quota or
\* rate-limit failure or any other) no model is invoked and no stage is
\* dispatched for that analysis again.
C7_NoRetry ==
    [][\A a \in Ids :
          /\ \A k \in Stages : trace'[a].llm_calls[k] <= 1
          /\ trace[a].raised_at # 0 =>
                 /\ trace'[a].llm_calls = trace[a].llm_calls
                 /\ trace'[a].invoked = trace[a].invoked
                 /\ pc'[a] \in {"done"}]_vars

C7_Witness ==
    \E a \in Ids :
        /\ pc[a] = "done" /\ trace[a].llm_failed
        /\ analysis_storage[a]["error"] = QUOTA_MESSAGE
        /\ trace[a].llm_calls = [k \in Stages |-> IF k <= 3 THEN 1 ELSE 0]

\* C8: when the matcher has been called and has raised, the team
\* composition the coordinator holds, and the one stored once the analysis
\* is completed, is the one stage 3 returned.
C8_MatcherFailureIsolated ==
    \A a \in Ids :
        (trace[a].matcher_called /\ trace[a].matcher_raised) =>
            LET original == Get(trace[a].results[3], "team_composition", JList(<< >>))
            IN  /\ pc[a] # "done" =>
                       frame[a].estimation_result["team_composition"] = original
                /\ (pc[a] = "done" /\ trace[a].raised_at = 0) =>
                       /\ Status(a) = "completed"
                       /\ analysis_storage[a]["team_composition"] = original

\* C9: the call of a stage raises only when the invocation of the model
\* itself has failed: an answer of the model, whatever its text, never makes
\* a stage raise.
C9_UnparseableNeverAborts ==
    \A a \in Ids : trace[a].raised_at # 0 => trace[a].llm_failed

\* the text json.loads is given is not JSON
NotJson(text) == ~json_loads(strip_markdown_wrapper(text)).ok

\* C10: a stage processor whose model answers with a text that is not JSON
\* returns, without raising, a result with error set, confidence 0.3, a
\* processing_time, its agent_name, and raw_response the text with its
\* fence stripped.
C10_ParseFailureFallback ==
    (probe.called /\ NotJson(probe.text)) =>
        /\ ~probe.output.raised
        /\ DOMAIN probe.output.value =
               {"agent_name", "error", "raw_response", "confidence", "processing_time"}
        /\ probe.output.value["error"] = "Failed to parse agent response"
        /\ probe.output.value["confidence"] * 10 = 3 * FULL_CONFIDENCE
        /\ probe.output.value["processing_time"] = Elapsed
        /\ probe.output.value["agent_name"] = AgentName[probe.stage]
        /\ probe.output.value["raw_response"] = strip_markdown_wrapper(probe.text)

C10_Witness ==
    /\ probe.called /\ probe.stage = 3
    /\ probe.text = <<FENCE, NL, PROSE, NL, FENCE>>
    /\ "error" \in DOMAIN probe.output.value
    /\ probe.output.value["raw_response"] = <<PROSE>>

\* the failure text has a marker of a quota or rate-limit condition
IsQuotaFailure(text) ==
    \/ Contains(text, <<"4", "2", "9">>)
    \/ Contains(lower(text), <<"q", "u", "o", "t", "a">>)
    \/ Contains(lower(text), <<"r", "a", "t", "e", " ", "l", "i", "m", "i", "t">>)

\* C11: when the invocation of the model has failed, the call of the stage
\* has raised; what it raised is the retry-later exception exactly when the
\* failure text holds "429" or, in any case of letters, "quota" or
\* "rate limit", and is otherwise the exception the invocation raised.
C11_QuotaMapping ==
    \A a \in Ids :
        (pc[a] = "returned" /\ trace[a].llm_failed) =>
            /\ future[a].raised
            /\ IF IsQuotaFailure(trace[a].llm_error.msg)
               THEN future[a].value = Exc("Exception", QUOTA_MESSAGE)
               ELSE /\ future[a].value = trace[a].llm_error
                    /\ future[a].value.msg # QUOTA_MESSAGE

C11_Witness ==
    \E a \in Ids, b \in {<<"R", "a", "t", "e", " ", "L", "i", "m", "i", "t", " ", "r", "e", "a", "c", "h", "e", "d">>} :
        /\ pc[a] = "returned" /\ trace[a].llm_failed
        /\ trace[a].llm_error.msg = b
        /\ future[a].value.msg = QUOTA_MESSAGE

\* C12: the error stored on a failed record is the retry-later message when
\* the model failed with a quota or rate-limit failure, and otherwise starts
\* with "Analysis failed: ".
C12_StoredErrorMessage ==
    \A a \in Stored :
        Status(a) = "failed" =>
            IF trace[a].llm_failed /\ IsQuotaFailure(trace[a].llm_error.msg)
            THEN analysis_storage[a]["error"] = QUOTA_MESSAGE
            ELSE IsPrefix(STR_Analysis_failed, analysis_storage[a]["error"])

\* the confidences present in a list of results, in order
Present(results) ==
    LET with == SelectSeq(results, LAMBDA r : "confidence" \in DOMAIN r)
    IN  [i \in 1..Len(with) |-> with[i]["confidence"]]

\* c[1]*w[1] + ... + c[n]*w[n]
RECURSIVE Dot(_, _, _)
Dot(c, w, n) == IF n = 0 THEN 0 ELSE c[n] * w[n] + Dot(c, w, n - 1)

\* C13: the aggregated confidence num/den is 0.5 when no result has a
\* confidence; otherwise, with c the confidences present and w the first
\* Len(c) of the weights 1, 1.2, 1.5, 1.3, it is 1.0 when the weighted mean
\* (c.w)/(1.w) is above 1.0 and that mean when it is not.
C13_ConfidenceAggregation ==
    probe.called =>
        \A c \in {Present(probe.agent_results)} :
            \A cw \in {Dot(c, <<10, 12, 15, 13>>, Len(c))},
               w \in {Dot([i \in 1..Len(c) |-> 1], <<10, 12, 15, 13>>, Len(c))} :
                IF Len(c) = 0
                THEN probe.output.num * 2 = probe.output.den * 3000
                ELSE IF cw > 3000 * w
                THEN probe.output.num = probe.output.den * 3000
                ELSE probe.output.num * w = cw * probe.output.den

C13_Witness ==
    /\ probe.called
    /\ probe.agent_results =
           <<[agent_name |-> "agent", confidence |-> 2700],
             [agent_name |-> "agent", confidence |-> 900]>>
    /\ probe.output.num * 22 = (2700 * 10 + 900 * 12) * probe.output.den

\* C14: a completed record holds the results of the four stages, the team
\* composition, the cost breakdown, the timeline breakdown, the aggregated
\* overall confidence and the summary, each under its name.
C14_CompletedRecordFields ==
    \A a \in Stored :
        Status(a) = "completed" =>
            {"intake_analysis", "technical_analysis", "estimation_analysis",
             "team_composition", "cost_breakdown", "timeline_breakdown",
             "overall_confidence", "summary"} \subseteq DOMAIN analysis_storage[a]

\* the names of C14 the completed update of run_analysis does write
C14_FieldsWritten ==
    \A a \in Stored :
        Status(a) = "completed" =>
            {"intake_analysis", "technical_analysis", "estimation_analysis",
             "team_composition", "timeline_breakdown"} \subseteq DOMAIN analysis_storage[a]

\* the record of an id, None while there is none
RecordOf(storage, b) == IF b \in DOMAIN storage THEN storage[b] ELSE None

\* the stage results the task of analysis a produced, the estimation as
\* step 3.5 left it
OwnResults(a) ==
    [intake_analysis |-> trace[a].results[1],
     technical_analysis |-> trace[a].results[2],
     estimation_analysis |->
         employee_matching(trace[a].results[3], trace[a].results[2],
                           roster).estimation_result,
     summary_analysis |-> trace[a].results[4]]

\* a completed record holds the stage results of its own task
OwnResultsStored(b) ==
    /\ Len(trace[b].results) = 4
    /\ \A own \in {OwnResults(b)} :
           \A key \in DOMAIN own : analysis_storage[b][key] = own[key]

\* C15: under any interleaving of analyses, the record of an id changes only
\* in a submit of that id or in a step of that id's own background task, the
\* step leaves the records of all other ids as they were, and a completed
\* record holds the stage results of its own task and its own description.
C15_OneWriterPerId ==
    /\ [][\A b \in Ids :
             RecordOf(analysis_storage', b) # RecordOf(analysis_storage, b) =>
                /\ \/ pc[b] = "none" /\ pc'[b] = "queued"
                   \/ pc[b] = "returned" /\ pc'[b] = "done"
                /\ \A c \in Ids \ {b} :
                       /\ RecordOf(analysis_storage', c) = RecordOf(analysis_storage, c)
                       /\ pc'[c] = pc[c]
                /\ analysis_storage'[b]["input_description"] =
                       IF pc[b] = "none" THEN frame'[b].project_description
                       ELSE analysis_storage[b]["input_description"]
       ]_vars
    /\ [](\A b \in Stored : Status(b) = "completed" => OwnResultsStored(b))

\* two analyses of different descriptions completed with different
\* estimations, each record holding its own
C15_Witness ==
    \E a \in Stored, b \in Stored :
        /\ Status(a) = "completed" /\ Status(b) = "completed"
        /\ analysis_storage[a]["input_description"] # analysis_storage[b]["input_description"]
        /\ analysis_storage[a]["estimation_analysis"] # analysis_storage[b]["estimation_analysis"]
        /\ OwnResultsStored(a) /\ OwnResultsStored(b)

\* the status updates run_analysis makes
SampleUpdates ==
    {[status |-> "completed", kwargs |-> [completed_at |-> Now("run_analysis")]],
     [status |-> "failed", kwargs |-> [error |-> STR_Analysis_failed]]}

\* C16: in every state of the store, a GET of an id that was never submitted
\* is answered 404 without a record and leaves the store as it was, and a
\* status update addressed to such an id leaves the store as it was.
C16_UnknownIdNotFound ==
    /\ [][\A id \in RequestedIds \ DOMAIN analysis_storage :
             (probe' # probe /\ probe'.analysis_id = id) =>
                /\ probe'.output = [code |-> 404, body |-> None]
                /\ analysis_storage' = analysis_storage
       ]_vars
    /\ [](\A id \in RequestedIds \ DOMAIN analysis_storage :
             /\ get_status(analysis_storage, id) = [code |-> 404, body |-> None]
             /\ \A u \in SampleUpdates :
                    update_analysis_status(analysis_storage, id, u.status, u.kwargs)
                        = analysis_storage)

\* a GET of an unknown id answered while the store holds a completed record
C16_Witness ==
    /\ probe.called
    /\ probe.analysis_id \notin DOMAIN analysis_storage
    /\ probe.output.code = 404
    /\ \E a \in Stored : Status(a) = "completed"

\* the score of an employee before the cap
RawScore(employee, role_title, seniority, required_skills) ==
    title_points(role_title, employee) + seniority_points(seniority, employee)
        + skill_points(matched_skills(employee.skills, required_skills))

\* C17: for every employee of the roster (proficiencies 1..5), every role
\* and the skills derived for it, the match_score is at least 0 and at most
\* 100, and match_percentage is the whole number the score is cut to; the
\* same holds of every recommended employee the matcher returns.
C17_ScoreBounds ==
    /\ probe.score # None =>
          /\ \A i \in 1..Len(probe.score.employee.skills) :
                 probe.score.employee.skills[i].proficiency_level \in 1..5
          /\ 0 <= probe.score.score_data.match_score
          /\ probe.score.score_data.match_score <= 100
          /\ probe.score.score_data.match_percentage \in Int
          /\ probe.score.score_data.match_percentage <= probe.score.score_data.match_score
          /\ probe.score.score_data.match_score < probe.score.score_data.match_percentage + 1
    /\ (probe.called >= 1 /\ roster # << >>) =>
          \A j \in 1..Len(probe.output.roles.v) :
              \A rec \in {probe.output.roles.v[j].v["recommended_employees"].v} :
                  \A n \in 1..Len(rec) :
                      /\ 0 <= rec[n].v.match_score /\ rec[n].v.match_score <= 100
                      /\ rec[n].v.match_percentage \in Int
                      /\ rec[n].v.match_percentage <= rec[n].v.match_score
                      /\ rec[n].v.match_score < rec[n].v.match_percentage + 1

\* an employee whose points add up to more than 100 has been scored
C17_Witness ==
    /\ probe.score # None
    /\ probe.score.score_data.match_score = 100
    /\ RawScore(probe.score.employee, probe.score.role.v["role"].v,
                probe.score.role.v["seniority"].v,
                extract_role_skills(probe.score.role.v["role"].v,
                                    StrValues(probe.required_skills))) > 100

\* C18: for a fixed roster, team and skill list, the matcher run twice
\* yields the same roles with the same recommended employees in the same
\* order, and run on its own output it yields that output again.
C18_MatchIdempotent ==
    /\ probe.called >= 1 =>
          /\ ~probe.output.raised
          /\ probe.output = match_employees_to_roles(probe.team_composition,
                                                     probe.required_skills, roster)
    /\ probe.called = 2 => probe.again = probe.output

\* the matcher has run on its own output, which recommends tied employees
C18_Witness ==
    /\ probe.called = 2
    /\ roster # << >>
    /\ probe.again = probe.output
    /\ \E j \in 1..Len(probe.again.roles.v) :
           \E rec \in {probe.again.roles.v[j].v["recommended_employees"].v} :
               /\ Len(rec) = 3
               /\ rec[2].v.match_score = rec[3].v.match_score

\* the scores of the employees of the roster for a role
RoleScores(role) ==
    [i \in 1..Len(roster) |->
        calculate_match_score(
            roster[i], role.v["role"].v, role.v["seniority"].v,
            extract_role_skills(role.v["role"].v,
                                StrValues(probe.required_skills))).match_score]

\* what C19 says of the recommended employees rec of a role, scores being
\* the scores of the roster for it
TopThree(rec, scores) ==
    /\ \A n \in 1..Len(rec) : rec[n].v.match_score > 0
    /\ \A n \in 1..(Len(rec) - 1) : rec[n].v.match_score >= rec[n + 1].v.match_score
    /\ Len(rec) = Min(3, Cardinality({i \in 1..Len(roster) : scores[i] > 0}))
    /\ \A n \in 1..Len(rec) :
           \E i \in 1..Len(roster) :
               /\ roster[i].employee_id = rec[n].v.employee_id
               /\ scores[i] = rec[n].v.match_score
    /\ \A i \in 1..Len(roster) :
           (\A n \in 1..Len(rec) : rec[n].v.employee_id # roster[i].employee_id) =>
               \A n \in 1..Len(rec) : scores[i] <= rec[n].v.match_score

\* C19: with roster data present, the recommended employees of every role
\* all score above 0, are in the order of non-increasing score, are
\* min(3, number of employees scoring above 0) many, and no employee left
\* out scores higher than one of them.
C19_TopThreeByScore ==
    (probe.called >= 1 /\ roster # << >>) =>
        \A j \in 1..Len(probe.output.roles.v) :
            TopThree(probe.output.roles.v[j].v["recommended_employees"].v,
                     RoleScores(probe.team_composition.v[j]))

\* a role with more than three employees scoring above 0, one scoring 0, and
\* a lower scorer ahead of a higher one in the roster
C19_Witness ==
    /\ probe.called >= 1
    /\ roster # << >>
    /\ \E j \in 1..Len(probe.output.roles.v) :
           \E scores \in {RoleScores(probe.team_composition.v[j])} :
               /\ Cardinality({i \in 1..Len(roster) : scores[i] > 0}) > 3
               /\ \E i \in 1..Len(roster) : scores[i] = 0
               /\ \E i \in 1..Len(roster) : \E k \in (i + 1)..Len(roster) :
                      0 < scores[i] /\ scores[i] < scores[k]
               /\ Len(probe.output.roles.v[j].v["recommended_employees"].v) = 3

\* the employee is of the Senior level, has "Backend" in the title and a
\* skill of proficiency 5 that matches one of the supplied skills
BackendSeniorWithSkill(employee, skills) ==
    /\ lower(employee.seniority_level) = STR_senior
    /\ Contains(employee.title, <<"B", "a", "c", "k", "e", "n", "d">>)
    /\ \E n \in 1..Len(employee.skills), m \in 1..Len(skills) :
           /\ employee.skills[n].proficiency_level = 5
           /\ \/ Contains(lower(employee.skills[n].skill_name), lower(skills[m]))
              \/ Contains(lower(skills[m]), lower(employee.skills[n].skill_name))

\* C20: for the role Backend Developer of seniority Senior and a roster of
\* one Senior employee with "Backend" in the title and a skill of
\* proficiency 5 matching a supplied required skill, that employee is the
\* first recommended employee of the role, with a match_score of 45 or more.
C20_BackendSeniorScenario ==
    (/\ probe.called >= 1
     /\ Len(roster) = 1
     /\ BackendSeniorWithSkill(roster[1], StrValues(probe.required_skills))) =>
        \A j \in 1..Len(probe.output.roles.v) :
            probe.team_composition.v[j] = RoleBackend =>
                \A rec \in {probe.output.roles.v[j].v["recommended_employees"].v} :
                    /\ rec # << >>
                    /\ rec[1].v.employee_id = roster[1].employee_id
                    /\ rec[1].v.match_score >= 45

\* no role of the team composition has the key recommended_employees
NoRecommendations(team_composition) ==
    team_composition.t = "list" =>
        \A n \in 1..Len(team_composition.v) :
            team_composition.v[n].t = "dict" =>
                "recommended_employees" \notin DOMAIN team_composition.v[n].v

\* C21: with no roster data, step 3.5 leaves the estimation result as stage
\* 3 returned it, no role gets the key recommended_employees, a matcher that
\* is called does not raise, and stage 4 is dispatched and given that result;
\* the record of a completed analysis holds it.
C21_NoRosterUnchanged ==
    \A a \in Ids :
        (roster = << >> /\ trace[a].matching_runs >= 1) =>
            /\ trace[a].matcher_called => ~trace[a].matcher_raised
            /\ trace[a].invoked = <<1, 2, 3, 4>>
            /\ NoRecommendations(Get(trace[a].results[3], "team_composition", JList(<< >>)))
            /\ pc[a] # "done" =>
                   /\ frame[a].estimation_result = trace[a].results[3]
                   /\ arg[a]["estimation_analysis"] = trace[a].results[3]
            /\ (pc[a] = "done" /\ Status(a) = "completed") =>
                   /\ analysis_storage[a]["estimation_analysis"] = trace[a].results[3]
                   /\ NoRecommendations(analysis_storage[a]["team_composition"])

\* with no roster the matcher was called on a team of roles, and the
\* analysis completed
C21_Witness ==
    \E a \in Ids :
        /\ roster = << >>
        /\ trace[a].matcher_called
        /\ pc[a] = "done" /\ Status(a) = "completed"
        /\ analysis_storage[a]["team_composition"].t = "list"
        /\ Len(analysis_storage[a]["team_composition"].v) = 2

\* the technology names of a project: its technology cells that are not empty
TechNames(project) ==
    {project[tech_columns[n]] :
        n \in {m \in 1..Len(tech_columns) : notna(project, tech_columns[m])}}

\* the project is among the results
Returned(project, results) ==
    \E n \in 1..Len(results) : results[n].project_code = project.project_code

\* the rows of the file that qualify for the request
Qualifying(p) ==
    similar_rows(p.projects_df, p.request.project_type, p.request.complexity_score)

\* C22: the similarity of a qualifying project is |intersection| / |union|
\* of the requested technology names and the project's technology names; a
\* project whose names are the requested ones has similarity 1.0 and is
\* returned (or five projects of similarity 1.0 are), and a project with
\* none of the requested names has similarity 0.0 and is not returned.
C22_JaccardSimilarity ==
    probe.called = "get_similar_projects" =>
        \A i \in 1..Len(Qualifying(probe)) :
            LET project == Qualifying(probe)[i]
                requested == SetOf(probe.request.tech_stack)
                similarity == tech_similarity(probe.request.tech_stack, project)
            IN  /\ similarity.num * Cardinality(requested \cup TechNames(project))
                       = Cardinality(requested \cap TechNames(project)) * similarity.den
                /\ TechNames(project) = requested =>
                       /\ similarity.num = similarity.den
                       /\ \/ Returned(project, probe.output)
                          \/ /\ Len(probe.output) = 5
                             /\ \A n \in 1..5 :
                                    probe.output[n].tech_similarity.num
                                        = probe.output[n].tech_similarity.den
                /\ TechNames(project) \cap requested = {} =>
                       /\ similarity.num = 0
                       /\ ~Returned(project, probe.output)

\* the rows of the file that get_similar_projects may return
Candidates(p) ==
    SelectSeq(Qualifying(p),
              LAMBDA project :
                  tech_similarity(p.request.tech_stack, project).num * 5
                      > tech_similarity(p.request.tech_stack, project).den)

C24_EmptyDefaults ==
    (probe.projects_df = << >> /\ probe.employees_df = << >> /\ probe.called # "none") =>
        /\ probe.called \in {"get_similar_projects", "get_risk_indicators",
                             "get_available_employees"} => probe.output = << >>
        /\ probe.called \in {"get_project_cost_estimates",
                             "get_team_performance_metrics",
                             "get_technology_usage_stats"} =>
               DOMAIN probe.output = {}
        /\ roster = << >>

\* the technology statistics asked for with no data loaded
C24_Witness ==
    /\ probe.projects_df = << >> /\ probe.employees_df = << >>
    /\ probe.called = "get_technology_usage_stats"
    /\ DOMAIN probe.output = {}

\* C25: an analysis is failed only if the call of one of its stages raised;
\* when the calls of all four stages have returned a result, the analysis
\* ends completed.
C25_FailedOnlyIfStageRaised ==
    \A a \in Stored :
        /\ Status(a) = "failed" => trace[a].raised_at # 0
        /\ (pc[a] = "done" /\ Len(trace[a].results) = 4) => Status(a) = "completed"

\* C26: the seniority component is 20 when the seniority of the employee is
\* the required one, whatever the case of the letters, 10 when the two
\* levels (Junior 1, Mid 2, Senior 3, Lead 4, Principal and Staff 5) differ
\* by exactly 1, and 0 in every other case.
C26_SeniorityComponent ==
    probe.called =>
        probe.points =
            IF lower(probe.required) = lower(probe.employee) THEN 20
            ELSE IF Abs(seniority_level(probe.required)
                            - seniority_level(probe.employee)) = 1 THEN 10
            ELSE 0

\* step 3.5 on what stages 2 and 3 of the analysis returned
Matched(a) == employee_matching(trace[a].results[3], trace[a].results[2], roster)

\* every role of the estimation result has recommended_employees
Enriched(estimation_result) ==
    \A i \in 1..Len(estimation_result["team_composition"].v) :
        "recommended_employees" \in DOMAIN estimation_result["team_composition"].v[i].v

\* C27: employee matching runs at most once in an analysis, when stage 3 has
\* returned and stage 4 has not been invoked, and stage 4 is not dispatched
\* without it; the estimation result in the context of stage 4 and in the
\* completed record is the result of stage 3 as matching left it, with
\* recommended_employees in every role when the matcher ran to its end on a
\* roster that is not empty.
C27_MatchingBetweenStages ==
    /\ [][\A a \in Ids :
              trace'[a].matching_runs # trace[a].matching_runs =>
                  /\ trace[a].matching_runs = 0 /\ trace'[a].matching_runs = 1
                  /\ Len(trace[a].results) = 3
                  /\ trace[a].invoked = <<1, 2, 3>>
                  /\ trace'[a].invoked = <<1, 2, 3, 4>>
                  /\ trace'[a].llm_calls[4] = 0]_vars
    /\ [](\A a \in Ids :
              /\ trace[a].matching_runs <= 1
              /\ Len(trace[a].invoked) = 4 <=> trace[a].matching_runs = 1
              /\ (stage[a] = 4 /\ pc[a] \in {"running", "returned"}) =>
                     /\ arg[a]["estimation_analysis"] = Matched(a).estimation_result
                     /\ frame[a].estimation_result = Matched(a).estimation_result
                     /\ (Matched(a).called /\ ~Matched(a).raised /\ roster # << >>) =>
                            Enriched(arg[a]["estimation_analysis"])
              /\ (a \in Stored /\ Status(a) = "completed") =>
                     /\ analysis_storage[a]["estimation_analysis"]
                            = Matched(a).estimation_result
                     /\ (Matched(a).called /\ ~Matched(a).raised /\ roster # << >>) =>
                            Enriched(analysis_storage[a]["estimation_analysis"]))

\* an analysis is completed whose roles got their recommended employees
\* between stage 3 and stage 4
C27_Witness ==
    \E a \in Stored :
        /\ Status(a) = "completed"
        /\ trace[a].matching_runs = 1
        /\ trace[a].matcher_called /\ ~trace[a].matcher_raised
        /\ roster # << >>
        /\ analysis_storage[a]["estimation_analysis"] # trace[a].results[3]
        /\ Enriched(analysis_storage[a]["estimation_analysis"])

\* C28: matching adds recommended_employees to roles and alters nothing
\* that was there: the list the matcher returns has the roles it was given,
\* in their order, and every key a role had has the value it had.
C28_MatchingOnlyAdds ==
    (probe.called = 1 /\ probe.team_composition.t = "list") =>
        /\ Len(probe.output.roles.v) = Len(probe.team_composition.v)
        /\ \A i \in 1..Len(probe.team_composition.v) :
               \A key \in DOMAIN probe.team_composition.v[i].v :
                   /\ key \in DOMAIN probe.output.roles.v[i].v
                   /\ probe.output.roles.v[i].v[key] = probe.team_composition.v[i].v[key]

\* the keys of a record that hold what the four stages returned
StageResultKeys ==
    {"intake_analysis", "technical_analysis", "estimation_analysis", "summary_analysis"}

\* C29: a failed record has an error and neither completed_at nor a stage
\* result; a completed record has completed_at and the four stage results
\* and no error; a processing record has none of them; and the
\* input_description, created_at and analysis_id of a record stay what
\* submit stored.
C29_RecordShape ==
    /\ [](\A a \in Stored :
              /\ Status(a) \in {"processing", "failed", "completed"}
              /\ Status(a) = "processing" =>
                     DOMAIN analysis_storage[a]
                         \cap ({"error", "completed_at"} \cup StageResultKeys) = {}
              /\ Status(a) = "failed" =>
                     /\ "error" \in DOMAIN analysis_storage[a]
                     /\ DOMAIN analysis_storage[a]
                            \cap ({"completed_at"} \cup StageResultKeys) = {}
              /\ Status(a) = "completed" =>
                     /\ ({"completed_at"} \cup StageResultKeys)
                            \subseteq DOMAIN analysis_storage[a]
                     /\ "error" \notin DOMAIN analysis_storage[a]
                     /\ analysis_storage[a]["intake_analysis"] = trace[a].results[1]
                     /\ analysis_storage[a]["technical_analysis"] = trace[a].results[2]
                     /\ analysis_storage[a]["summary_analysis"] = trace[a].results[4])
    /\ [][\A a \in Stored :
              /\ a \in DOMAIN analysis_storage'
              /\ analysis_storage'[a]["input_description"]
                     = analysis_storage[a]["input_description"]
              /\ analysis_storage'[a]["created_at"] = analysis_storage[a]["created_at"]
              /\ analysis_storage'[a]["analysis_id"] = analysis_storage[a]["analysis_id"]
              /\ analysis_storage[a]["analysis_id"] = a]_vars

\* one analysis has failed and another is completed
C29_Witness ==
    \E a \in Stored, b \in Stored :
        /\ Status(a) = "failed" /\ Status(b) = "completed"
        /\ analysis_storage[a]["input_description"]
               # analysis_storage[b]["input_description"]

\* what _get_historical_context returns when the lookup succeeds
Insights == get_historical_context(ConcurrentLookup)

\* the result of stage 3 had the lookup succeeded
WithInsights(r) ==
    IF "historical_insights" \in DOMAIN r THEN Put(r, "historical_insights", Insights)
    ELSE r

\* C30: when the lookup of historical data raises inside stage 3, the stage
\* invokes the model once and does not raise the lookup's exception; the
\* historical context of its result is the error marker; and the analysis
\* goes on to matching and to stage 4, with the estimation result that it
\* would have after a lookup that succeeded, but for the historical context.
C30_LookupFailureNotFatal ==
    \A a \in Ids :
        trace[a].lookup_raised =>
            /\ trace[a].llm_calls[3] = 1
            /\ (pc[a] = "returned" /\ stage[a] = 3 /\ future[a].raised) =>
                   future[a].value.msg # STR_lookup_failed
            /\ (a \in Stored /\ Status(a) = "failed") =>
                   ~Contains(analysis_storage[a]["error"], STR_lookup_failed)
            /\ trace[a].raised_at = 0 =>
                   /\ Len(trace[a].results) >= 3
                   /\ "historical_insights" \in DOMAIN trace[a].results[3] =>
                          trace[a].results[3]["historical_insights"]
                              = [error |-> STR_lookup_failed]
                   /\ \/ pc[a] = "returned" /\ stage[a] = 3
                      \/ /\ trace[a].matching_runs = 1
                         /\ trace[a].invoked = <<1, 2, 3, 4>>
                         /\ trace[a].matcher_called
                                = employee_matching(WithInsights(trace[a].results[3]),
                                                    trace[a].results[2], roster).called
                         /\ trace[a].matcher_raised
                                = employee_matching(WithInsights(trace[a].results[3]),
                                                    trace[a].results[2], roster).raised
                   /\ (stage[a] = 4 /\ pc[a] \in {"running", "returned"}) =>
                          WithInsights(arg[a]["estimation_analysis"])
                              = employee_matching(WithInsights(trace[a].results[3]),
                                                  trace[a].results[2],
                                                  roster).estimation_result

\* the lookup raised, stage 3 returned a result with the error marker, the
\* matcher ran, and the analysis is completed
C30_Witness ==
    \E a \in Stored :
        /\ trace[a].lookup_raised
        /\ Status(a) = "completed"
        /\ trace[a].matcher_called
        /\ trace[a].results[3]["historical_insights"] = [error |-> STR_lookup_failed]
        /\ analysis_storage[a]["estimation_analysis"]["historical_insights"]
               = [error |-> STR_lookup_failed]

====
